---- MODULE Spec2Model ----
(***************************************************************************)
(* State-machine model of emby-collections: the collection reconciler      *)
(* (src/src/collection_manager.py), the Emby gateway client                *)
(* (src/src/emby_client.py), the metadata edit tracker                     *)
(* (src/src/metadata_tracker.py) and the sync cycle driver                 *)
(* (src/emby_collections.py).                                              *)
(*                                                                         *)
(* Conventions.  Python None is the string None for texts and 0 for ids    *)
(* and years (both are falsy, like None and '' in the source).  A title is *)
(* the sequence of its whitespace-separated words.  The Emby server is     *)
(* modelled by what the client's requests read and write: a collection is  *)
(* a record with an ordered member list, and every request of one handler  *)
(* may fail independently; the set F of an operation names the request     *)
(* sites that fail during it.                                              *)
(***************************************************************************)
EXTENDS Integers, Sequences, FiniteSets, TLC

VARIABLES
    dry_run,            \* CollectionManager.dry_run
    clear_collections,  \* CollectionManager.clear_collections
    remove_missing,     \* CollectionManager.remove_missing
    delete_unlisted,    \* CollectionManager.delete_unlisted
    colls,              \* the server's collections (BoxSets): id -> record
    nextId,             \* the id the server gives the next collection
    cache,              \* MetadataTracker.cache: id -> (field -> value)
    cache_file,         \* the persisted .metadata_cache.json
    managed,            \* CollectionManager.managed_collection_names
    calls,              \* mutating requests issued by the last operation
    last,               \* the last operation: inputs, prior state, result
    pc,                 \* position of sync_all_collections
    idx,                \* index of the configured collection being handled
    total_stats,        \* sync_all_collections' total_stats
    config,             \* the configured collections, in file order
    library,            \* the server's movie items, in the order it lists them
    remote,             \* the movies a Trakt category holds, in the provider's order
    normalized_movies,  \* TraktFetcher.fetch_movies: the records collected so far
    page                \* TraktFetcher.fetch_movies: the page to request next

vars == <<dry_run, clear_collections, remove_missing, delete_unlisted, colls,
          nextId, cache, cache_file, managed, calls, last, pc, idx, total_stats,
          config, library, remote, normalized_movies, page>>

\* what the operations of the collection manager leave alone
flags == <<dry_run, clear_collections, remove_missing, delete_unlisted, config, library,
           remote, normalized_movies, page>>

settings == <<dry_run, clear_collections, remove_missing, delete_unlisted, config, library>>

----------------------------------------------------------------------------
(* Bounds of the model *)

NItems == 2        \* library items are 1..NItems
MaxLen == 3        \* longest list of movies handed to one sync
MaxIds == 120      \* longest id list handed to one batched call
MaxColl == 3       \* collections the server creates within one run

(* Program constant *)
batch_size == 50

None == "None"

Truthy(s) == s # None /\ s # ""

Min(a, b) == IF a < b THEN a ELSE b

Range(s) == {s[i] : i \in 1..Len(s)}

SeqsUpTo(S, n) == UNION {[1..k -> S] : k \in 0..n}

Perms(S) == {p \in [1..Cardinality(S) -> S] : Range(p) = S}

Fields == {"Overview", "SortName", "Name"}

----------------------------------------------------------------------------
(* The library: a read-only snapshot of the server's movies *)

Items == 1..NItems

Titles == << <<"Love">>, <<"Love", "the", "Coopers">>, <<"The", "Dark", "Knight">>,
             <<"Dune">>, <<"The", "Love">> >>

LibraryItem(i) ==
    [Id |-> i,
     Name |-> Titles[((i - 1) % Len(Titles)) + 1],
     ProductionYear |-> 2000 + i,
     ProviderIds |-> [Imdb |-> i, Tmdb |-> 100 + i]]

Lower(w) ==
    CASE w = "Love" -> "love"
      [] w = "The" -> "the"
      [] w = "Coopers" -> "coopers"
      [] w = "Dark" -> "dark"
      [] w = "Knight" -> "knight"
      [] w = "Dune" -> "dune"
      [] w = "Xmas" -> "xmas"
      [] w = "Noir" -> "noir"
      [] w = "Old" -> "old"
      [] OTHER -> w

LowerWords(title) == {Lower(title[i]) : i \in 1..Len(title)}

Library == [i \in 1..NItems |-> LibraryItem(i)]

\* the server compares provider ids without regard to letter case; the id
\* -n stands for the id n spelled in the other case
FoldId(id) == IF id < 0 THEN 0 - id ELSE id

\* GET /Items: by provider id when one is given, else by search term
search_items(search_term, imdb_id, tmdb_id) ==
    IF imdb_id # 0
    THEN SelectSeq(library, LAMBDA it : FoldId(it.ProviderIds.Imdb) = FoldId(imdb_id))
    ELSE IF tmdb_id # 0
    THEN SelectSeq(library, LAMBDA it : FoldId(it.ProviderIds.Tmdb) = FoldId(tmdb_id))
    ELSE IF search_term # <<>>
    THEN SelectSeq(library, LAMBDA it : LowerWords(it.Name) \cap LowerWords(search_term) # {})
    ELSE <<>>

----------------------------------------------------------------------------
(* Matcher: CollectionManager._find_movie_in_library *)

match_priority == <<"imdb_id", "tmdb_id", "title">>

Movie(title, year, imdb_id, tmdb_id) ==
    [title |-> title, year |-> year, imdb_id |-> imdb_id, tmdb_id |-> tmdb_id,
     list_rank |-> 0, rating |-> 0, votes |-> 0]

title_contained(movie_title, item_title) ==
    /\ LowerWords(movie_title) # {}
    /\ 5 * Cardinality(LowerWords(movie_title) \cap LowerWords(item_title))
          >= 4 * Cardinality(LowerWords(movie_title))

\* both coverages at least 0.8, over the lower-cased word sets
title_similar(movie_title, item_title) ==
    LET movie_words == LowerWords(movie_title)
        item_words == LowerWords(item_title)
        common_words == movie_words \cap item_words
    IN /\ movie_words # {} /\ item_words # {}
       /\ 5 * Cardinality(common_words) >= 4 * Cardinality(movie_words)
       /\ 5 * Cardinality(common_words) >= 4 * Cardinality(item_words)

RECURSIVE title_match(_, _, _)
title_match(movie, items, k) ==
    IF k > Len(items) THEN 0
    ELSE IF /\ items[k].ProductionYear # 0
            /\ items[k].ProductionYear = movie.year
            /\ title_similar(movie.title, items[k].Name)
         THEN items[k].Id
         ELSE title_match(movie, items, k + 1)

\* what one strategy gives: the item id found (0 when none) and the search
\* it issued, if any
Found(id, strategy) == [Id |-> id, searches |-> <<strategy>>]

NotTried == [Id |-> 0, searches |-> <<>>]

imdb_unverified(item, movie) == TRUE

\* "if item_imdb != movie['imdb_id']: ... continue"
imdb_verified(item, movie) == item.ProviderIds.Imdb = movie.imdb_id

FirstOf(items, strategy) ==
    IF items = <<>> THEN Found(0, strategy) ELSE Found(items[1].Id, strategy)

FirstVerified(items, movie, strategy) ==
    IF items # <<>> /\ imdb_verified(items[1], movie)
    THEN Found(items[1].Id, strategy)
    ELSE Found(0, strategy)

year_not_needed(movie) == TRUE

\* "if not movie.get('year'): continue" negated
has_year(movie) == movie.year # 0

strategy_result(strategy, movie) ==
    IF strategy = "imdb_id" /\ movie.imdb_id # 0
    THEN FirstVerified(search_items(<<>>, movie.imdb_id, 0), movie, strategy)
    ELSE IF strategy = "tmdb_id" /\ movie.tmdb_id # 0
    THEN FirstOf(search_items(<<>>, 0, movie.tmdb_id), strategy)
    ELSE IF strategy = "title" /\ movie.title # <<>> /\ has_year(movie)
    THEN Found(title_match(movie, search_items(movie.title, 0, 0), 1), strategy)
    ELSE NotTried

RECURSIVE find_in_every(_, _, _, _)
find_in_every(priority, movie, k, searches) ==
    IF k > Len(priority) THEN [Id |-> 0, searches |-> searches]
    ELSE LET r == strategy_result(priority[k], movie)
             rest == find_in_every(priority, movie, k + 1, searches \o r.searches)
         IN IF rest.Id # 0 THEN rest ELSE [Id |-> r.Id, searches |-> rest.searches]

\* the loop over match_priority from position k: the item id found (0 when
\* none) and the searches issued, in order
RECURSIVE find_by_priority(_, _, _, _)
find_by_priority(priority, movie, k, searches) ==
    IF k > Len(priority) THEN [Id |-> 0, searches |-> searches]
    ELSE LET r == strategy_result(priority[k], movie)
         IN IF r.Id # 0 THEN [Id |-> r.Id, searches |-> searches \o r.searches]
            ELSE find_by_priority(priority, movie, k + 1, searches \o r.searches)

_find_movie_in_library(movie) == find_by_priority(match_priority, movie, 1, <<>>).Id

\* CollectionManager._match_movies_to_library: matched ids in list order
RECURSIVE matched_ids(_, _)
matched_ids(movies, k) ==
    IF k > Len(movies) THEN <<>>
    ELSE LET id == _find_movie_in_library(movies[k])
         IN (IF id # 0 THEN <<id>> ELSE <<>>) \o matched_ids(movies, k + 1)

not_found_count(movies) == Len(movies) - Len(matched_ids(movies, 1))

\* x.get('list_rank', 9999); list_rank = 0 stands for a record without the key
missing_rank == 9999

rank_key(m) == IF m.list_rank = 0 THEN missing_rank ELSE m.list_rank

\* sorted(movies, key=list_rank): a stable insertion sort
RECURSIVE insert_by_rank(_, _)
insert_by_rank(sorted, m) ==
    IF sorted = <<>> THEN <<m>>
    ELSE IF rank_key(sorted[Len(sorted)]) <= rank_key(m) THEN Append(sorted, m)
    ELSE Append(insert_by_rank(SubSeq(sorted, 1, Len(sorted) - 1), m), sorted[Len(sorted)])

RECURSIVE sort_by_rank(_, _)
sort_by_rank(movies, k) ==
    IF k = 0 THEN <<>> ELSE insert_by_rank(sort_by_rank(movies, k - 1), movies[k])

rank_ignored(movies) == movies

rank_sorted(movies) ==
    IF movies # <<>> /\ movies[1].list_rank # 0
    THEN sort_by_rank(movies, Len(movies))
    ELSE movies

\* the place of a title in the order of Python strings: the empty title,
\* then capitals in alphabetical order, then small letters
TitleOrd(title) ==
    CASE title = <<>> -> 0
      [] title = <<"Dune">> -> 1
      [] title = <<"Love">> -> 2
      [] title = <<"Love", "the", "Coopers">> -> 3
      [] title = <<"The", "Dark", "Knight">> -> 4
      [] title = <<"The", "Love">> -> 5
      [] OTHER -> 6

\* the key of sorted(): rating and votes with reverse=True, title ascending
sort_key(sort_by, m) ==
    CASE sort_by = "rating" -> 0 - m.rating
      [] sort_by = "votes" -> 0 - m.votes
      [] OTHER -> TitleOrd(m.title)

\* sorted() is stable, with reverse=True as well
RECURSIVE insert_by_key(_, _, _)
insert_by_key(sorted, m, sort_by) ==
    IF sorted = <<>> THEN <<m>>
    ELSE IF sort_key(sort_by, sorted[Len(sorted)]) <= sort_key(sort_by, m) THEN Append(sorted, m)
    ELSE Append(insert_by_key(SubSeq(sorted, 1, Len(sorted) - 1), m, sort_by), sorted[Len(sorted)])

RECURSIVE sort_by_key(_, _, _)
sort_by_key(movies, k, sort_by) ==
    IF k = 0 THEN <<>> ELSE insert_by_key(sort_by_key(movies, k - 1, sort_by), movies[k], sort_by)

\* "Apply custom sorting if specified" of EmbyCollectionSync.sync_collection
sorted_by(sort_by, movies) ==
    IF sort_by \in {"rating", "votes", "title"} /\ movies # <<>>
    THEN sort_by_key(movies, Len(movies), sort_by)
    ELSE movies

----------------------------------------------------------------------------
(* MetadataTracker *)

get_tracked_value(c, collection_id, field) ==
    IF collection_id \in DOMAIN c /\ field \in DOMAIN c[collection_id]
    THEN c[collection_id][field]
    ELSE None

\* the new in-memory cache
track_metadata(c, collection_id, field, value) ==
    LET old == IF collection_id \in DOMAIN c THEN c[collection_id] ELSE <<>>
        new == (field :> value) @@ old
    IN (collection_id :> new) @@ c

clear_collection(c, collection_id) ==
    [k \in DOMAIN c \ {collection_id} |-> c[k]]

\* json.dump of the cache: an object of objects, as its set of members
json_dump(c) ==
    {<<k, {<<f, c[k][f]>> : f \in DOMAIN c[k]}>> : k \in DOMAIN c}

Member(object, key) == (CHOOSE m \in object : m[1] = key)[2]

\* json.load of a file written by json_dump
json_load(file) ==
    [k \in {m[1] : m \in file} |->
        [f \in {n[1] : n \in Member(file, k)} |-> Member(Member(file, k), f)]]

\* a file that does not exist reads as the empty cache
NoFile == {}

_load_cache(file) == IF file = NoFile THEN <<>> ELSE json_load(file)

----------------------------------------------------------------------------
(* EmbyClient: the gateway.  An operation takes the environment             *)
(* e = [colls, nextId, cache, cache_file, calls] and returns the new        *)
(* environment with its return value; raised marks an exception that        *)
(* leaves the operation.                                                    *)

Env == [colls |-> colls, nextId |-> nextId, cache |-> cache,
        cache_file |-> cache_file, calls |-> <<>>]

Ret(e, ret) == [e |-> e, ret |-> ret, raised |-> FALSE]
Raise(e) == [e |-> e, ret |-> FALSE, raised |-> TRUE]

Call(op, cid, ids, ok) == [op |-> op, cid |-> cid, ids |-> ids, ok |-> ok]

Logged(e, op, cid, ids, ok) == [e EXCEPT !.calls = Append(@, Call(op, cid, ids, ok))]

RECURSIVE Ascending(_)
Ascending(S) ==
    IF S = {} THEN <<>>
    ELSE LET m == CHOOSE x \in S : \A y \in S : x <= y
         IN <<m>> \o Ascending(S \ {m})

\* GET /Items?IncludeItemTypes=BoxSet, filtered by the exact lower-cased name
get_collections(cs, name) ==
    IF name = None THEN Ascending(DOMAIN cs)
    ELSE Ascending({c \in DOMAIN cs : Lower(cs[c].Name) = Lower(name)})

\* GET /Items?ParentId=: the members in stored order
get_collection_items(cs, collection_id) == cs[collection_id].Items

\* the server appends the ids of a request that are not members yet
AppendNew(members, ids) ==
    LET new(i) == ids[i] \notin Range(members) /\ \A j \in 1..(i - 1) : ids[j] # ids[i]
        kept == SelectSeq([i \in 1..Len(ids) |-> i], new)
    IN members \o [k \in 1..Len(kept) |-> ids[kept[k]]]

WithoutIds(members, ids) == SelectSeq(members, LAMBDA x : x \notin Range(ids))

\* item_ids[i:i + batch_size]
batch_at(item_ids, i) == SubSeq(item_ids, i + 1, Min(i + batch_size, Len(item_ids)))

continue_regardless == TRUE

\* whether the loop goes on to the next batch after a failed request
continue_after_failure == FALSE

\* the loop of add_to_collection / remove_from_collection from offset i;
\* failAt is the number of the batch whose request fails (0: none)
RECURSIVE batched(_, _, _, _, _, _, _)
batched(e, op, collection_id, item_ids, i, failAt, ok) ==
    IF i >= Len(item_ids) THEN Ret(e, ok)
    ELSE LET batch == batch_at(item_ids, i)
             fails == (i \div batch_size) + 1 = failAt \/ collection_id \notin DOMAIN e.colls
             e1 == IF fails THEN e
                   ELSE [e EXCEPT !.colls[collection_id].Items =
                            IF op = "add" THEN AppendNew(@, batch) ELSE WithoutIds(@, batch)]
             e2 == Logged(e1, op, collection_id, batch, ~fails)
         IN IF fails /\ ~continue_after_failure THEN Ret(e2, FALSE)
            ELSE batched(e2, op, collection_id, item_ids, i + batch_size, failAt, ok /\ ~fails)

add_to_collection(e, collection_id, item_ids, failAt) ==
    IF item_ids = <<>> THEN Ret(e, TRUE)
    ELSE batched(e, "add", collection_id, item_ids, 0, failAt, TRUE)

remove_from_collection(e, collection_id, item_ids, failAt) ==
    IF item_ids = <<>> THEN Ret(e, TRUE)
    ELSE batched(e, "remove", collection_id, item_ids, 0, failAt, TRUE)

FailAt(F, site) == IF site \in F THEN 1 ELSE 0

\* DELETE /Items/{id}
delete_collection(e, collection_id, F) ==
    IF "delete" \in F \/ collection_id \notin DOMAIN e.colls
    THEN Ret(Logged(e, "delete", collection_id, <<>>, FALSE), FALSE)
    ELSE Ret(Logged([e EXCEPT !.colls = [c \in DOMAIN e.colls \ {collection_id} |-> e.colls[c]]],
                    "delete", collection_id, <<>>, TRUE), TRUE)

update_collection_display_order(e, collection_id, display_order, F) ==
    IF display_order \notin {"PremiereDate", "SortName"} THEN Ret(e, FALSE)
    ELSE IF "display_get" \in F \/ collection_id \notin DOMAIN e.colls THEN Ret(e, FALSE)
    ELSE IF "display_post" \in F
    THEN Ret(Logged(e, "display", collection_id, <<>>, FALSE), FALSE)
    ELSE Ret(Logged([e EXCEPT !.colls[collection_id].DisplayOrder = display_order],
                    "display", collection_id, <<>>, TRUE), TRUE)

manual_edit_ignored(tracked, current) == FALSE

\* a tracked value that the live value no longer equals: a manual edit
manual_edit(tracked, current) == tracked # None /\ current # tracked

needs_write_always(current, value) == TRUE

needs_write(current, value) == current # value

\* MetadataTracker._save_cache: a failed write is logged and swallowed
save_cache(c, file, F) == IF "save" \in F THEN file ELSE json_dump(c)

\* one of the three field blocks of update_collection_metadata, on
\* s = [item, modified, cache, cache_file]
update_field(s, collection_id, field, value, F) ==
    IF ~Truthy(value) THEN s
    ELSE LET current == s.item[field]
             tracked == get_tracked_value(s.cache, collection_id, field)
         IN IF manual_edit(tracked, current) THEN s
            ELSE LET c1 == track_metadata(s.cache, collection_id, field, value)
                     item1 == IF field = "SortName"
                              THEN [s.item EXCEPT !.SortName = value, !.ForcedSortName = value]
                              ELSE [s.item EXCEPT ![field] = value]
                 IN [item |-> IF needs_write(current, value) THEN item1 ELSE s.item,
                     modified |-> s.modified \/ needs_write(current, value),
                     cache |-> c1,
                     cache_file |-> save_cache(c1, s.cache_file, F)]

update_collection_metadata(e, collection_id, overview, sort_name, name, F) ==
    IF ~Truthy(overview) /\ ~Truthy(sort_name) /\ ~Truthy(name) THEN Ret(e, TRUE)
    ELSE IF "meta_get" \in F \/ collection_id \notin DOMAIN e.colls THEN Ret(e, FALSE)
    ELSE LET s0 == [item |-> e.colls[collection_id], modified |-> FALSE,
                    cache |-> e.cache, cache_file |-> e.cache_file]
             s1 == update_field(s0, collection_id, "Overview", overview, F)
             s2 == update_field(s1, collection_id, "SortName", sort_name, F)
             s3 == update_field(s2, collection_id, "Name", name, F)
             e1 == [e EXCEPT !.cache = s3.cache, !.cache_file = s3.cache_file]
         IN IF ~s3.modified THEN Ret(e1, TRUE)
            ELSE IF "meta_post" \in F
            THEN Ret(Logged(e1, "meta", collection_id, <<>>, FALSE), FALSE)
            ELSE Ret(Logged([e1 EXCEPT !.colls[collection_id] = s3.item],
                            "meta", collection_id, <<>>, TRUE), TRUE)

FileExists(image_path) == image_path = "poster.jpg"

\* the ImageTags of the item hold a Primary tag; an error answers False
collection_has_custom_image(e, collection_id, F) ==
    IF "has_image" \in F \/ collection_id \notin DOMAIN e.colls THEN FALSE
    ELSE e.colls[collection_id].Image # None

set_collection_image(e, collection_id, image_path, F) ==
    IF ~FileExists(image_path) THEN Ret(e, FALSE)
    ELSE IF "set_image" \in F \/ collection_id \notin DOMAIN e.colls
    THEN Ret(Logged(e, "image", collection_id, <<>>, FALSE), FALSE)
    ELSE Ret(Logged([e EXCEPT !.colls[collection_id].Image = image_path],
                    "image", collection_id, <<>>, TRUE), TRUE)

NewCollection(name, item_ids, overview) ==
    [Name |-> name, Items |-> AppendNew(<<>>, item_ids), Overview |-> overview,
     SortName |-> "", ForcedSortName |-> "", DisplayOrder |-> None, Image |-> None]

\* POST /Collections, then the display order and the guarded metadata update;
\* ret is the id of the new collection
create_collection(e, name, item_ids, overview, display_order, sort_name, F) ==
    IF "create" \in F THEN Raise(Logged(e, "create", 0, item_ids, FALSE))
    ELSE LET id == e.nextId
             ov == IF Truthy(overview) /\ "create_overview" \notin F THEN overview ELSE ""
             e1 == Logged([e EXCEPT !.colls = (id :> NewCollection(name, item_ids, ov)) @@ @,
                                    !.nextId = @ + 1],
                          "create", id, item_ids, TRUE)
             e2 == IF Truthy(display_order)
                   THEN update_collection_display_order(e1, id, display_order, F).e
                   ELSE e1
             e3 == IF Truthy(overview) \/ Truthy(sort_name)
                   THEN update_collection_metadata(e2, id, overview, sort_name, None, F).e
                   ELSE e2
         IN Ret(e3, id)

----------------------------------------------------------------------------
(* CollectionManager *)

_set_collection_image(e, collection_id, image_path, force, F) ==
    IF ~FileExists(image_path) THEN Ret(e, FALSE)
    ELSE IF ~force /\ collection_has_custom_image(e, collection_id, F) THEN Ret(e, TRUE)
    ELSE IF dry_run THEN Ret(e, TRUE)
    ELSE set_collection_image(e, collection_id, image_path, F)

_clear_collection_failed(e, collection_id, F) == Ret(e, FALSE)

_clear_collection(e, collection_id, F) ==
    IF "clear_items" \in F \/ collection_id \notin DOMAIN e.colls THEN Raise(e)
    ELSE LET current_item_ids == get_collection_items(e.colls, collection_id)
         IN IF current_item_ids = <<>> THEN Ret(e, TRUE)
            ELSE IF dry_run THEN Ret(e, TRUE)
            ELSE remove_from_collection(e, collection_id, current_item_ids,
                                        FailAt(F, "clear_remove"))

\* "Collection already up to date": neither items_changed nor order_might_differ
up_to_date(current_items, desired_item_ids) ==
    LET current_item_ids == Range(current_items)
        desired_item_ids_set == Range(desired_item_ids)
        items_changed == current_item_ids # desired_item_ids_set
        order_might_differ == /\ current_item_ids = desired_item_ids_set
                              /\ Len(current_items) = Len(desired_item_ids)
    IN ~items_changed /\ ~order_might_differ

rebuild_counts_with_churn(current_item_ids, desired_item_ids_set) ==
    <<Cardinality(desired_item_ids_set),
      Cardinality(current_item_ids \ desired_item_ids_set),
      Cardinality(desired_item_ids_set \cap current_item_ids)>>

rebuild_counts_of_calls(current_item_ids, desired_item_ids_set) ==
    <<Cardinality(desired_item_ids_set), Cardinality(current_item_ids), 0>>

\* <<added, removed, stayed>> of a rebuild
rebuild_counts(current_item_ids, desired_item_ids_set) ==
    <<Cardinality(desired_item_ids_set \ current_item_ids),
      Cardinality(current_item_ids \ desired_item_ids_set),
      Cardinality(desired_item_ids_set \cap current_item_ids)>>

dry_run_counts(current_item_ids, desired_item_ids_set) ==
    <<Cardinality(desired_item_ids_set \ current_item_ids),
      IF remove_missing THEN Cardinality(current_item_ids \ desired_item_ids_set) ELSE 0,
      Cardinality(desired_item_ids_set \cap current_item_ids)>>

\* rm is list(current_item_ids): the current ids in the order the set yields them
_update_collection(e, collection_id, desired_item_ids, F, rm) ==
    IF "items" \in F \/ collection_id \notin DOMAIN e.colls THEN Raise(e)
    ELSE LET current_items == get_collection_items(e.colls, collection_id)
             current_item_ids == Range(current_items)
             desired_item_ids_set == Range(desired_item_ids)
         IN IF up_to_date(current_items, desired_item_ids)
            THEN Ret(e, <<0, 0, Len(desired_item_ids)>>)
            ELSE IF dry_run
            THEN Ret(e, dry_run_counts(current_item_ids, desired_item_ids_set))
            ELSE LET e1 == remove_from_collection(e, collection_id, rm, FailAt(F, "remove")).e
                     e2 == add_to_collection(e1, collection_id, desired_item_ids,
                                             FailAt(F, "add")).e
                 IN Ret(e2, rebuild_counts(current_item_ids, desired_item_ids_set))

Stats(movies) ==
    [added |-> 0, removed |-> 0, total |-> Len(movies), not_found |-> 0, already_present |-> 0]

WithCounts(stats, counts) ==
    [stats EXCEPT !.added = counts[1], !.removed = counts[2], !.already_present = counts[3]]

Out(e, stats, raised) == [e |-> e, stats |-> stats, raised |-> raised]

\* the branch of sync_collection for a collection that exists
sync_existing(e, collection_id, matched_item_ids, stats, overview, image_path, display_order, sort_title, F, rm) ==
    LET e1 == IF Truthy(overview) \/ Truthy(sort_title)
              THEN update_collection_metadata(e, collection_id, overview, sort_title, None, F).e
              ELSE e
        e2 == IF Truthy(display_order)
              THEN update_collection_display_order(e1, collection_id, display_order, F).e
              ELSE e1
        e3 == IF Truthy(image_path)
              THEN _set_collection_image(e2, collection_id, image_path, FALSE, F).e
              ELSE e2
        update(ex) ==
            LET up == _update_collection(ex, collection_id, matched_item_ids, F, rm)
            IN IF up.raised THEN Out(up.e, stats, TRUE)
               ELSE Out(up.e, WithCounts(stats, up.ret), FALSE)
    IN IF clear_collections
       THEN LET cleared == _clear_collection(e3, collection_id, F)
                filled == <<Len(matched_item_ids), 0, 0>>
            IN IF cleared.raised THEN Out(cleared.e, stats, TRUE)
               ELSE IF cleared.ret
               THEN IF dry_run THEN Out(cleared.e, WithCounts(stats, filled), FALSE)
                    ELSE Out(add_to_collection(cleared.e, collection_id, matched_item_ids,
                                               FailAt(F, "clear_add")).e,
                             WithCounts(stats, filled), FALSE)
               ELSE update(cleared.e)
       ELSE update(e3)

\* the branch of sync_collection that creates the collection
sync_create(e, collection_name, matched_item_ids, stats, overview, image_path, display_order, sort_title, F) ==
    IF dry_run THEN Out(e, [stats EXCEPT !.added = Len(matched_item_ids)], FALSE)
    ELSE LET result == create_collection(e, collection_name, matched_item_ids, overview,
                                         display_order, sort_title, F)
         IN IF result.raised THEN Out(result.e, stats, FALSE)
            ELSE Out(IF Truthy(image_path)
                     THEN _set_collection_image(result.e, result.ret, image_path, FALSE, F).e
                     ELSE result.e,
                     [stats EXCEPT !.added = Len(matched_item_ids)], FALSE)

no_match_ignored(matched_item_ids) == FALSE

\* "if not matched_item_ids": nothing matched, the collection is left alone
no_match(matched_item_ids) == matched_item_ids = <<>>

searches_issued(movies) ==
    \E k \in 1..Len(movies) : find_by_priority(match_priority, movies[k], 1, <<>>).searches # <<>>

sync_collection(collection_name, movies, overview, image_path, display_order, sort_title, F, rm) ==
    LET sorted == rank_sorted(movies)
        matched_item_ids == matched_ids(sorted, 1)
        stats == [Stats(movies) EXCEPT !.not_found = Len(sorted) - Len(matched_item_ids)]
    IN IF "search" \in F /\ searches_issued(sorted) THEN Out(Env, Stats(movies), TRUE)
       ELSE IF no_match(matched_item_ids) THEN Out(Env, stats, FALSE)
       ELSE IF "get_collections" \in F THEN Out(Env, stats, TRUE)
       ELSE LET existing_collections == get_collections(colls, collection_name)
            IN IF existing_collections # <<>>
               THEN sync_existing(Env, existing_collections[1], matched_item_ids, stats,
                                  overview, image_path, display_order, sort_title, F, rm)
               ELSE sync_create(Env, collection_name, matched_item_ids, stats, overview,
                                image_path, display_order, sort_title, F)

----------------------------------------------------------------------------
(* Actions *)

Overviews == {"A", "B", "C"}
SortTitles == {"S", "T"}

\* a record that carries only an IMDb id; id NItems + 1 is not in the library
ImdbMovie(k) == Movie(<<>>, 0, k, 0)
ImdbMovies == {ImdbMovie(k) : k \in 1..(NItems + 1)}

NoDupSeqs(S) == {q \in SeqsUpTo(S, Cardinality(S)) : Cardinality(Range(q)) = Len(q)}

Collection(name, items, overview, image) ==
    [Name |-> name, Items |-> items, Overview |-> overview, SortName |-> "",
     ForcedSortName |-> "", DisplayOrder |-> None, Image |-> image]

ZeroTotals ==
    [collections_processed |-> 0, collections_failed |-> 0, total_added |-> 0,
     total_removed |-> 0, total_not_found |-> 0, collections_deleted |-> 0]

CurrentIds(collection_name) ==
    LET existing == get_collections(colls, collection_name)
    IN IF existing = <<>> THEN {} ELSE Range(colls[existing[1]].Items)

AllOk(cs) == \A k \in 1..Len(cs) : cs[k].ok

\* one call of CollectionManager.sync_collection
Sync(collection_name, movies, overview, image_path, display_order, sort_title, F) ==
    \E rm \in Perms(CurrentIds(collection_name)) :
        \E r \in {sync_collection(collection_name, movies, overview, image_path,
                                  display_order, sort_title, F, rm)} :
           /\ r.e.nextId <= MaxColl + 1
           /\ colls' = r.e.colls
           /\ nextId' = r.e.nextId
           /\ cache' = r.e.cache
           /\ cache_file' = r.e.cache_file
           /\ calls' = r.e.calls
           /\ managed' = managed \cup {collection_name}
           /\ last' = [op |-> "sync", name |-> collection_name, movies |-> movies,
                       matched |-> matched_ids(rank_sorted(movies), 1),
                       overview |-> overview, sort_title |-> sort_title,
                       display_order |-> display_order, image_path |-> image_path,
                       F |-> F, pre |-> colls, pre_cache |-> cache,
                       stats |-> r.stats, raised |-> r.raised,
                       again |-> /\ last.op = "sync"
                                 /\ last.name = collection_name
                                 /\ last.movies = movies
                                 /\ ~last.raised
                                 /\ AllOk(calls)]
           /\ UNCHANGED <<flags, pc, idx, total_stats>>

\* somebody edits a text field of a collection in the server's own interface
ManualEdit ==
    \E c \in DOMAIN colls, field \in {"Overview", "SortName"} :
        \E v \in (IF field = "Overview" THEN Overviews ELSE SortTitles) \cup {""} :
            /\ colls[c][field] # v
            /\ colls' = IF field = "SortName"
                        THEN [colls EXCEPT ![c].SortName = v, ![c].ForcedSortName = v]
                        ELSE [colls EXCEPT ![c].Overview = v]
            /\ calls' = <<>>
            /\ last' = [op |-> "edit"]
            /\ UNCHANGED <<flags, nextId, cache, cache_file, managed, pc, idx, total_stats>>

\* no fetch is under way
NoFetch == remote = <<>> /\ normalized_movies = <<>> /\ page = 0

InitRest ==
    /\ cache_file = NoFile /\ cache = _load_cache(cache_file)
    /\ managed = {} /\ calls = <<>>
    /\ last = [op |-> "init"]
    /\ pc = "idle" /\ idx = 0
    /\ total_stats = ZeroTotals
    /\ NoFetch

----------------------------------------------------------------------------
(* SpecMeta: syncs of one collection with every choice of overview and     *)
(* sort title, between manual edits and failures of the metadata requests  *)

InitMeta ==
    /\ config = <<>>
    /\ library = Library
    /\ dry_run \in BOOLEAN
    /\ clear_collections = FALSE
    /\ remove_missing = TRUE
    /\ delete_unlisted = FALSE
    /\ \/ colls = <<>> /\ nextId = 1
       \/ colls = (1 :> Collection("Xmas", <<1>>, "", None)) /\ nextId = 2
    /\ InitRest

SyncMeta ==
    \E overview \in Overviews \cup {None}, sort_title \in SortTitles \cup {None},
       F \in {{}, {"meta_get"}, {"meta_post"}} :
        Sync("Xmas", <<ImdbMovie(1)>>, overview, None, None, sort_title, F)

NextMeta == SyncMeta \/ ManualEdit

SpecMeta == InitMeta /\ [][NextMeta]_vars

----------------------------------------------------------------------------
(* SpecMembers: syncs of one collection with every list of movies, from    *)
(* every prior membership, in every mode, all requests succeeding          *)

InitMembers ==
    /\ config = <<>>
    /\ library = Library
    /\ dry_run \in BOOLEAN
    /\ clear_collections \in BOOLEAN
    /\ remove_missing \in BOOLEAN
    /\ delete_unlisted = FALSE
    /\ \/ colls = <<>> /\ nextId = 1
       \/ \E items \in NoDupSeqs(Items) :
            colls = (1 :> Collection("Xmas", items, "B", None)) /\ nextId = 2
    /\ InitRest

SyncMembers ==
    \E movies \in SeqsUpTo(ImdbMovies, MaxLen) :
        Sync("Xmas", movies, "A", "poster.jpg", None, None, {})

NextMembers == SyncMembers

SpecMembers == InitMembers /\ [][NextMembers]_vars

----------------------------------------------------------------------------
(* SpecBatch: one add_to_collection or remove_from_collection call with    *)
(* every length of id list, on a collection of every size, with a failure  *)
(* of every batch                                                           *)

IdSeq(n) == [k \in 1..n |-> k]

MaxBatches == (MaxIds + batch_size - 1) \div batch_size

InitBatch ==
    /\ config = <<>>
    /\ library = Library
    /\ dry_run = FALSE
    /\ clear_collections = FALSE
    /\ remove_missing = TRUE
    /\ delete_unlisted = FALSE
    /\ \E held \in {0, MaxIds \div 2, MaxIds} :
          colls = (1 :> Collection("Xmas", IdSeq(held), "", None))
    /\ nextId = 2
    /\ cache_file = NoFile /\ cache = _load_cache(cache_file)
    /\ managed = {} /\ calls = <<>>
    /\ \E n \in 0..MaxIds, failAt \in 0..MaxBatches :
          last = [op |-> "ids", item_ids |-> IdSeq(n), failAt |-> failAt]
    /\ pc = "idle" /\ idx = 0
    /\ total_stats = ZeroTotals
    /\ NoFetch

Batched(op) ==
    /\ pc = "idle"
    /\ \E r \in {IF op = "add" THEN add_to_collection(Env, 1, last.item_ids, last.failAt)
                 ELSE remove_from_collection(Env, 1, last.item_ids, last.failAt)} :
          /\ colls' = r.e.colls
          /\ calls' = r.e.calls
          /\ last' = [op |-> op, item_ids |-> last.item_ids, failAt |-> last.failAt,
                      pre |-> colls, ret |-> r.ret]
    /\ pc' = "done"
    /\ UNCHANGED <<flags, nextId, cache, cache_file, managed, idx, total_stats>>

AddToCollection == Batched("add")

RemoveFromCollection == Batched("remove")

NextBatch == AddToCollection \/ RemoveFromCollection

SpecBatch == InitBatch /\ [][NextBatch]_vars

----------------------------------------------------------------------------
(* CollectionManager.hide_collection, delete_unlisted_collections, and the *)
(* cycle of EmbyCollectionSync                                              *)

hide_collection_skipped(e, collection_name, F) == Ret(e, TRUE)

hide_collection(e, collection_name, F) ==
    IF "get_collections" \in F THEN Raise(e)
    ELSE LET existing == get_collections(e.colls, collection_name)
         IN IF existing = <<>> THEN Ret(e, TRUE)
            ELSE IF dry_run THEN Ret(e, TRUE)
            ELSE delete_collection(e, existing[1], F)

\* the loop of delete_unlisted_collections over the listing, from position k
RECURSIVE delete_each(_, _, _, _, _, _)
delete_each(e, listing, all_collections, k, deleted_count, F) ==
    IF k > Len(all_collections) THEN Ret(e, deleted_count)
    ELSE LET collection_id == all_collections[k]
             collection_name == listing[collection_id].Name
         IN IF collection_name \in managed
            THEN delete_each(e, listing, all_collections, k + 1, deleted_count, F)
            ELSE IF dry_run
            THEN delete_each(e, listing, all_collections, k + 1, deleted_count + 1, F)
            ELSE LET d == delete_collection(e, collection_id, F)
                 IN delete_each(d.e, listing, all_collections, k + 1,
                                IF d.ret THEN deleted_count + 1 ELSE deleted_count, F)

delete_unlisted_collections(e, F) ==
    IF ~delete_unlisted THEN Ret(e, 0)
    ELSE IF "get_collections" \in F THEN Raise(e)
    ELSE delete_each(e, e.colls, get_collections(e.colls, None), 1, 0, F)

Date(month, day) == [month |-> month, day |-> day]

Window(start, end) ==
    [start_month |-> start.month, start_day |-> start.day,
     end_month |-> end.month, end_day |-> end.day]

incomplete_never(seasonal) == FALSE

\* "if not all([start_month, start_day, end_month, end_day])"; a missing
\* field is 0
incomplete(seasonal) ==
    0 \in {seasonal.start_month, seasonal.start_day, seasonal.end_month, seasonal.end_day}

in_window_no_wrap(start_date, end_date, current_date) ==
    start_date <= current_date /\ current_date <= end_date

\* the comparison of the dates as month * 100 + day
in_window(start_date, end_date, current_date) ==
    IF start_date <= end_date
    THEN start_date <= current_date /\ current_date <= end_date
    ELSE current_date >= start_date \/ current_date <= end_date

\* a configuration entry without the key "seasonal" has no such field
is_collection_in_season(collection_config, now) ==
    IF "seasonal" \notin DOMAIN collection_config THEN TRUE
    ELSE IF incomplete(collection_config.seasonal) THEN TRUE
    ELSE in_window(collection_config.seasonal.start_month * 100
                       + collection_config.seasonal.start_day,
                   collection_config.seasonal.end_month * 100
                       + collection_config.seasonal.end_day,
                   now.month * 100 + now.day)

\* config['collections']
collections ==
    << [name |-> "Xmas", overview |-> "A", image |-> None,
        seasonal |-> Window(Date(12, 15), Date(1, 5))],
       [name |-> "Noir", overview |-> None, image |-> None] >>

\* collection_config.get(key)
config_get(collection_config, key) ==
    IF key \in DOMAIN collection_config THEN collection_config[key] ELSE None

\* EmbyCollectionSync.sync_collection; movies is what the source returned
fetch_and_sync(collection_config, movies, F, rm) ==
    IF movies = <<>>
    THEN Out(Env, [added |-> 0, removed |-> 0, total |-> 0, not_found |-> 0], FALSE)
    ELSE sync_collection(collection_config.name,
                         sorted_by(config_get(collection_config, "sort_by"), movies),
                         collection_config.overview, collection_config.image, None, None, F, rm)

\* how the loop leaves an entry: on the except path, or on the path of done
Handled(r, done, synced) ==
    [e |-> r.e, synced |-> synced,
     stats |-> IF done = "processed" /\ ~r.raised THEN r.stats ELSE Stats(<<>>),
     outcome |-> IF r.raised THEN "failed" ELSE done]

\* the body of the loop of sync_all_collections for one configuration entry
loop_body(collection_config, now, movies, F, rm) ==
    IF ~is_collection_in_season(collection_config, now)
    THEN Handled(hide_collection(Env, collection_config.name, F), "hidden", FALSE)
    ELSE Handled(fetch_and_sync(collection_config, movies, F, rm), "processed", movies # <<>>)

\* the counters when the hide path counts as processed as well
Totalled_with_hidden(totals, outcome, stats) ==
    IF outcome = "failed"
    THEN [totals EXCEPT !.collections_failed = @ + 1]
    ELSE [totals EXCEPT !.collections_processed = @ + 1,
                        !.total_added = @ + stats.added,
                        !.total_removed = @ + stats.removed,
                        !.total_not_found = @ + stats.not_found]

Totalled(totals, outcome, stats) ==
    IF outcome = "processed"
    THEN [totals EXCEPT !.collections_processed = @ + 1,
                        !.total_added = @ + stats.added,
                        !.total_removed = @ + stats.removed,
                        !.total_not_found = @ + stats.not_found]
    ELSE IF outcome = "failed"
    THEN [totals EXCEPT !.collections_failed = @ + 1]
    ELSE totals

Today == {Date(7, 1), Date(12, 25)}

Fetched == {<<>>, <<ImdbMovie(1)>>, <<ImdbMovie(2), ImdbMovie(1)>>, <<ImdbMovie(NItems + 1)>>}

StepFailures == {{}, {"get_collections"}, {"create"}, {"remove"}, {"add"}, {"clear_add"}, {"delete"}}

InitCycle ==
    /\ config = collections
    /\ library = Library
    /\ dry_run \in BOOLEAN
    /\ clear_collections \in BOOLEAN
    /\ remove_missing = TRUE
    /\ delete_unlisted \in BOOLEAN
    /\ \/ colls = <<>> /\ nextId = 1
       \/ colls = (1 :> Collection("Xmas", <<1>>, "B", None)
                   @@ 2 :> Collection("Old", <<2>>, "", None)) /\ nextId = 3
    /\ InitRest

StartCycle ==
    /\ pc = "idle"
    /\ config # <<>>
    /\ pc' = "loop"
    /\ idx' = 1
    /\ total_stats' = ZeroTotals
    /\ calls' = <<>>
    /\ last' = [op |-> "start", handled |-> <<>>]
    /\ UNCHANGED <<flags, colls, nextId, cache, cache_file, managed>>

\* one pass of the loop of sync_all_collections, for config[idx]
LoopStep(dates, lists, failures) ==
    /\ pc = "loop"
    /\ idx <= Len(config)
    /\ \E now \in dates, movies \in lists, F \in failures :
        \E rm \in Perms(CurrentIds(config[idx].name)) :
            \E r \in {loop_body(config[idx], now, movies, F, rm)} :
               /\ r.e.nextId <= MaxColl + 1
               /\ colls' = r.e.colls
               /\ nextId' = r.e.nextId
               /\ cache' = r.e.cache
               /\ cache_file' = r.e.cache_file
               /\ calls' = r.e.calls
               /\ managed' = IF r.synced THEN managed \cup {config[idx].name} ELSE managed
               /\ total_stats' = Totalled(total_stats, r.outcome, r.stats)
               /\ last' = [op |-> "step", name |-> config[idx].name, now |-> now,
                           movies |-> movies, F |-> F, pre |-> colls, totals |-> total_stats,
                           stats |-> r.stats, outcome |-> r.outcome,
                           handled |-> Append(last.handled,
                                              [name |-> config[idx].name, now |-> now,
                                               stats |-> r.stats, outcome |-> r.outcome])]
    /\ idx' = idx + 1
    /\ UNCHANGED <<flags, pc>>

CycleStep == LoopStep(Today, Fetched, StepFailures)

\* delete_unlisted_collections and the summary that follow the loop
FinishCycle ==
    /\ pc = "loop"
    /\ idx > Len(config)
    /\ \E F \in {{}, {"get_collections"}, {"delete"}} :
        \E r \in {delete_unlisted_collections(Env, F)} :
           /\ colls' = r.e.colls
           /\ calls' = r.e.calls
           /\ pc' = IF r.raised THEN "aborted" ELSE "summary"
           /\ total_stats' = IF ~r.raised /\ r.ret > 0
                             THEN [total_stats EXCEPT !.collections_deleted = r.ret]
                             ELSE total_stats
           /\ last' = [op |-> "finish", F |-> F, pre |-> colls, totals |-> total_stats,
                       raised |-> r.raised, handled |-> last.handled]
    /\ UNCHANGED <<flags, nextId, cache, cache_file, managed, idx>>

NextCycle == StartCycle \/ CycleStep \/ FinishCycle

SpecCycle == InitCycle /\ [][NextCycle]_vars

----------------------------------------------------------------------------
(* SpecSeason: daily cycles over one configured collection with every      *)
(* seasonal window (complete, incomplete, absent) on every date            *)

SeasonMonths == {1, 6, 12}

Boundaries == {Date(m, d) : m \in SeasonMonths, d \in {5, 15}}

Days == {Date(m, d) : m \in SeasonMonths, d \in {1, 3, 5, 15, 20}}

CompleteWindows == {Window(start, end) : start \in Boundaries, end \in Boundaries}

\* Dec 15 to Jan 5 with some of its four fields missing
IncompleteWindows ==
    [start_month : {0, 12}, start_day : {0, 15}, end_month : {0, 1}, end_day : {0, 5}]
        \ {Window(Date(12, 15), Date(1, 5))}

Unseasonal == [name |-> "Xmas", overview |-> None, image |-> None]

Seasonal(w) == [name |-> "Xmas", overview |-> "A", image |-> None, seasonal |-> w]

InitSeason ==
    /\ \/ config = <<Unseasonal>>
       \/ \E w \in CompleteWindows \cup IncompleteWindows : config = <<Seasonal(w)>>
    /\ library = Library
    /\ dry_run \in BOOLEAN
    /\ clear_collections = FALSE
    /\ remove_missing = TRUE
    /\ delete_unlisted = FALSE
    /\ \/ colls = <<>> /\ nextId = 1
       \/ colls = (1 :> Collection("Xmas", <<2, 1>>, "", None)) /\ nextId = 2
    /\ InitRest

SeasonStep == LoopStep(Days, {<<>>, <<ImdbMovie(1), ImdbMovie(2)>>}, {{}})

\* run_scheduled: the next daily run
RunAgain ==
    /\ pc = "summary"
    /\ pc' = "idle"
    /\ UNCHANGED <<flags, colls, nextId, cache, cache_file, managed, calls, last, idx,
                   total_stats>>

NextSeason == StartCycle \/ SeasonStep \/ FinishCycle \/ RunAgain

SpecSeason == InitSeason /\ [][NextSeason]_vars

----------------------------------------------------------------------------
(* SpecMatch: one _find_movie_in_library call for every record, under      *)
(* every configured priority, against every small library                  *)

MaxLibrary == 2    \* most items in the library of SpecMatch

Item(id, name, year, imdb, tmdb) ==
    [Id |-> id, Name |-> name, ProductionYear |-> year,
     ProviderIds |-> [Imdb |-> imdb, Tmdb |-> tmdb]]

\* items 2 and 3 carry the same IMDb id; item 5 has no production year
MatchPool ==
    {Item(1, <<"Love", "the", "Coopers">>, 2015, 1, 101),
     Item(2, <<"The", "Dark", "Knight">>, 2008, 2, 102),
     Item(3, <<"Love">>, 2015, 2, 103),
     Item(4, <<"the", "dark", "knight", "rises", "again">>, 2012, 4, 104),
     Item(5, <<"Love">>, 0, 5, 105)}

MatchTitles ==
    {<<>>, <<"Love">>, <<"the", "dark", "knight">>,
     <<"The", "Dark", "Knight", "Rises", "now">>}

MatchRecords ==
    {Movie(title, year, imdb_id, tmdb_id) :
        title \in MatchTitles, year \in {0, 2008, 2012, 2015},
        imdb_id \in {0, 1, 2, -1}, tmdb_id \in {0, 101, 103}}

Strategies == {"imdb_id", "tmdb_id", "title"}

\* CollectionManager(match_priority=...): None or an empty list gives the default
effective_priority(configured) == IF configured = <<>> THEN match_priority ELSE configured

InitMatch ==
    /\ config = <<>>
    /\ library \in {q \in SeqsUpTo(MatchPool, MaxLibrary) : Cardinality(Range(q)) = Len(q)}
    /\ dry_run = FALSE
    /\ clear_collections = FALSE
    /\ remove_missing = TRUE
    /\ delete_unlisted = FALSE
    /\ colls = <<>> /\ nextId = 1
    /\ InitRest

FindMovie ==
    /\ pc = "idle"
    /\ \E movie \in MatchRecords, configured \in NoDupSeqs(Strategies) :
        \E r \in {find_by_priority(effective_priority(configured), movie, 1, <<>>)} :
           last' = [op |-> "find", movie |-> movie,
                    priority |-> effective_priority(configured),
                    Id |-> r.Id, searches |-> r.searches]
    /\ pc' = "done"
    /\ UNCHANGED <<flags, colls, nextId, cache, cache_file, managed, calls, idx, total_stats>>

NextMatch == FindMovie

SpecMatch == InitMatch /\ [][NextMatch]_vars

----------------------------------------------------------------------------
(* SpecImage: the image step on one collection, with and without force,    *)
(* between changes of the image made in the server's own interface         *)

InitImage ==
    /\ config = <<>>
    /\ library = Library
    /\ dry_run \in BOOLEAN
    /\ clear_collections = FALSE
    /\ remove_missing = TRUE
    /\ delete_unlisted = FALSE
    /\ \E image \in [1..2 -> {None, "manual.png"}] :
          colls = (1 :> Collection("Xmas", <<1>>, "", image[1])
                   @@ 2 :> Collection("Noir", <<2>>, "", image[2]))
    /\ nextId = 3
    /\ InitRest

\* one call of CollectionManager._set_collection_image
ApplyImage ==
    /\ \E collection_id \in DOMAIN colls, image_path \in {"poster.jpg", "missing.jpg"},
          force \in BOOLEAN, F \in {{}, {"has_image"}, {"set_image"}} :
        \E r \in {_set_collection_image(Env, collection_id, image_path, force, F)} :
           /\ colls' = r.e.colls
           /\ calls' = r.e.calls
           /\ last' = [op |-> "image", cid |-> collection_id, image_path |-> image_path,
                       force |-> force, F |-> F, pre |-> colls, ret |-> r.ret]
    /\ UNCHANGED <<flags, nextId, cache, cache_file, managed, pc, idx, total_stats>>

\* somebody sets or removes the primary image in the server's own interface
ManualImage ==
    /\ \E collection_id \in DOMAIN colls, image \in {None, "manual.png"} :
          /\ colls[collection_id].Image # image
          /\ colls' = [colls EXCEPT ![collection_id].Image = image]
    /\ calls' = <<>>
    /\ last' = [op |-> "edit"]
    /\ UNCHANGED <<flags, nextId, cache, cache_file, managed, pc, idx, total_stats>>

NextImage == ApplyImage \/ ManualImage

SpecImage == InitImage /\ [][NextImage]_vars

----------------------------------------------------------------------------
(* SpecTracker: the tracker alone.  Values are tracked and collections      *)
(* forgotten while writes of the cache file succeed or fail, and the        *)
(* process starts again from the file.                                       *)

TrackedIds == 1..2
TrackedFields == {"Overview", "SortName"}
TrackedValues == {"A", "B"}

\* the cache files a run can find at startup
CacheFiles == {NoFile, json_dump(1 :> ("Overview" :> "A")),
               json_dump(1 :> ("Overview" :> "A") @@ 2 :> ("SortName" :> "B"))}

InitTracker ==
    /\ config = <<>>
    /\ library = Library
    /\ dry_run = FALSE
    /\ clear_collections = FALSE
    /\ remove_missing = TRUE
    /\ delete_unlisted = FALSE
    /\ colls = <<>>
    /\ nextId = 1
    /\ cache_file \in CacheFiles
    /\ cache = _load_cache(cache_file)
    /\ managed = {} /\ calls = <<>>
    /\ last = [op |-> "init"]
    /\ pc = "idle" /\ idx = 0
    /\ total_stats = ZeroTotals
    /\ NoFetch

\* MetadataTracker.track_metadata
Track ==
    /\ \E collection_id \in TrackedIds, field \in TrackedFields, value \in TrackedValues,
          F \in {{}, {"save"}} :
        \E c \in {track_metadata(cache, collection_id, field, value)} :
           /\ cache' = c
           /\ cache_file' = save_cache(c, cache_file, F)
           /\ last' = [op |-> "track", cid |-> collection_id, field |-> field,
                       value |-> value, F |-> F, pre_cache |-> cache]
    /\ UNCHANGED <<flags, colls, nextId, managed, calls, pc, idx, total_stats>>

\* MetadataTracker.clear_collection: the file is written only when the
\* collection had entries
Forget ==
    /\ \E collection_id \in TrackedIds, F \in {{}, {"save"}} :
        \E c \in {clear_collection(cache, collection_id)} :
           /\ cache' = c
           /\ cache_file' = IF collection_id \in DOMAIN cache
                            THEN save_cache(c, cache_file, F) ELSE cache_file
           /\ last' = [op |-> "forget", cid |-> collection_id, field |-> None,
                       value |-> None, F |-> F, pre_cache |-> cache]
    /\ UNCHANGED <<flags, colls, nextId, managed, calls, pc, idx, total_stats>>

\* the next run of the program: MetadataTracker.__init__ loads the file
Restart ==
    /\ cache' = _load_cache(cache_file)
    /\ last' = [op |-> "load", cid |-> 0, field |-> None, value |-> None, F |-> {},
                pre_cache |-> cache]
    /\ UNCHANGED <<flags, colls, nextId, cache_file, managed, calls, pc, idx, total_stats>>

NextTracker == Track \/ Forget \/ Restart

SpecTracker == InitTracker /\ [][NextTracker]_vars

----------------------------------------------------------------------------
(* SpecSort: cycles over one configured collection with every sort_by,      *)
(* over lists of three records with and without list ranks                  *)

SortItems == 3

SortTitlesOf == << <<"Love">>, <<"The", "Dark", "Knight">>, <<"Dune">> >>

\* record k of a fetched list: IMDb id k, which is library item k
SortRecord(k, list_rank, rating, votes) ==
    [Movie(SortTitlesOf[k], 0, k, 0) EXCEPT !.list_rank = list_rank, !.rating = rating,
                                            !.votes = votes]

\* list ranks of the three records: none, all (with and without a tie), some
RankPatterns == {<<0, 0, 0>>, <<3, 1, 2>>, <<2, 1, 1>>, <<0, 2, 1>>, <<2, 0, 1>>}

RatingPatterns == {<<1, 2, 2>>, <<2, 1, 3>>}

SortLists ==
    {[k \in 1..SortItems |-> SortRecord(k, ranks[k], ratings[k], 4 - ratings[k])] :
        ranks \in RankPatterns, ratings \in RatingPatterns}

SortKeys == {None, "rating", "votes", "title", "year"}

InitSort ==
    /\ \E sort_by \in SortKeys :
          config = <<[name |-> "Xmas", overview |-> None, image |-> None, sort_by |-> sort_by]>>
    /\ library = [i \in 1..SortItems |-> LibraryItem(i)]
    /\ dry_run = FALSE
    /\ clear_collections \in BOOLEAN
    /\ remove_missing = TRUE
    /\ delete_unlisted = FALSE
    /\ colls = <<>> /\ nextId = 1
    /\ InitRest

SortStep == LoopStep({Date(6, 1)}, SortLists, {{}})

NextSort == StartCycle \/ SortStep \/ FinishCycle \/ RunAgain

SpecSort == InitSort /\ [][NextSort]_vars

----------------------------------------------------------------------------
(* The provider adapters: MDBListFetcher and TraktFetcher.  A value of a     *)
(* provider's JSON is py = [kind, chars, n]: None, a string as its           *)
(* characters, or an integer.                                                *)

PyNone == [kind |-> "none", chars |-> <<>>, n |-> 0]
PyStr(chars) == [kind |-> "str", chars |-> chars, n |-> 0]
PyInt(n) == [kind |-> "int", chars |-> <<>>, n |-> n]

\* bool(v)
py_truthy(v) == (v.kind = "str" /\ v.chars # <<>>) \/ (v.kind = "int" /\ v.n # 0)

\* a or b
py_or(a, b) == IF py_truthy(a) THEN a ELSE b

Digit(n) == <<"0", "1", "2", "3", "4", "5", "6", "7", "8", "9">>[n + 1]

RECURSIVE Digits(_)
Digits(n) == IF n < 10 THEN <<Digit(n)>> ELSE Append(Digits(n \div 10), Digit(n % 10))

\* str(v)
py_str(v) ==
    CASE v.kind = "str" -> v
      [] v.kind = "int" -> PyStr(Digits(v.n))
      [] OTHER -> PyStr(<<"N", "o", "n", "e">>)

\* s.startswith('tt')
startswith_tt(v) == Len(v.chars) >= 2 /\ v.chars[1] = "t" /\ v.chars[2] = "t"

\* movie['id'][key] (for Trakt movie['ids'][key]) when the object is in the
\* movie and is a dict, else None
id_object(movie, key) ==
    IF movie.id.present /\ movie.id.is_dict THEN movie.id[key] ELSE PyNone

\* "Ensure proper format (tt + numbers)"
with_tt(imdb_id) ==
    IF startswith_tt(py_str(imdb_id)) THEN py_str(imdb_id)
    ELSE PyStr(<<"t", "t">> \o py_str(imdb_id).chars)

_extract_imdb_id(movie) ==
    LET direct == py_or(movie.imdb_id, movie.imdbid)
        imdb_id == IF ~py_truthy(direct) /\ movie.id.present
                   THEN id_object(movie, "imdb") ELSE direct
    IN IF py_truthy(imdb_id) THEN with_tt(imdb_id) ELSE imdb_id

_extract_tmdb_id(movie) ==
    LET direct == py_or(movie.tmdb_id, movie.tmdbid)
        tmdb_id == IF ~py_truthy(direct) /\ movie.id.present
                   THEN id_object(movie, "tmdb") ELSE direct
    IN IF py_truthy(tmdb_id) THEN py_str(tmdb_id) ELSE PyNone

\* a normalised record, or None when the movie has neither id
Emitted(imdb_id, tmdb_id) ==
    [emitted |-> py_truthy(imdb_id) \/ py_truthy(tmdb_id), imdb_id |-> imdb_id,
     tmdb_id |-> tmdb_id]

\* MDBListFetcher._normalize_movie_data
mdblist_normalize(movie) == Emitted(_extract_imdb_id(movie), _extract_tmdb_id(movie))

\* TraktFetcher._normalize_movie_data; ids = movie.get('ids', {}), and an
\* ids that is no dict raises, which returns None
trakt_normalize(movie) ==
    IF movie.id.present /\ ~movie.id.is_dict THEN Emitted(PyNone, PyNone)
    ELSE Emitted(id_object(movie, "imdb"),
                 IF py_truthy(id_object(movie, "tmdb")) THEN py_str(id_object(movie, "tmdb"))
                 ELSE PyNone)

_normalize_movie_data(source, movie) ==
    IF source = "mdblist" THEN mdblist_normalize(movie) ELSE trakt_normalize(movie)

----------------------------------------------------------------------------
(* TraktFetcher.fetch_movies: the pages of a category *)

max_per_page == 100

\* per_page = min(100, limit)
per_page(limit) == IF limit < max_per_page THEN limit ELSE max_per_page

\* the provider's answer to page p of n items
page_of(movies, p, n) ==
    SubSeq(movies, (p - 1) * n + 1, IF p * n < Len(movies) THEN p * n ELSE Len(movies))

\* the records of a page, those without an id dropped
normalized_page(movies_data) ==
    SelectSeq([k \in 1..Len(movies_data) |-> trakt_normalize(movies_data[k])],
              LAMBDA normalized : normalized.emitted)

Take(s, n) == SubSeq(s, 1, IF n < Len(s) THEN n ELSE Len(s))

\* "if not movies_data: break"
empty_page(movies_data) == movies_data = <<>>

short_page_ignored(movies_data, n) == FALSE

\* "if len(movies_data) < per_page: break"
short_page(movies_data, n) == Len(movies_data) < n

\* the condition of the while loop, negated
limit_reached(collected, limit) == Len(collected) >= limit

\* the tests that follow the records of a page
after_page(collected, movies_data, limit) ==
    [movies |-> collected,
     goes_on |-> ~short_page(movies_data, per_page(limit)) /\ ~limit_reached(collected, limit)]

\* one pass of the while loop on an answered request: the records collected
\* and whether the loop goes on to the next page
while_body(collected, movies_data, limit) ==
    IF empty_page(movies_data) THEN [movies |-> collected, goes_on |-> FALSE]
    ELSE after_page(collected \o Take(normalized_page(movies_data), limit - Len(collected)),
                    movies_data, limit)

----------------------------------------------------------------------------
(* SpecPage: fetches of a Trakt category with every limit, from result      *)
(* sets that end before, on and after a page boundary, some movies          *)
(* carrying no id, and requests that fail                                    *)

MaxPage == 5

TraktMovie(k, has_id) ==
    [imdb_id |-> PyNone, imdbid |-> PyNone, tmdb_id |-> PyNone, tmdbid |-> PyNone,
     id |-> [present |-> TRUE, is_dict |-> TRUE, imdb |-> PyNone,
             tmdb |-> IF has_id THEN PyInt(k) ELSE PyInt(0)]]

\* result sets of n movies of which every gap-th carries no id (gap 0: all do)
ResultSet(n, gap) == [k \in 1..n |-> TraktMovie(k, gap = 0 \/ k % gap # 0)]

Limits == {1, 2, 50, max_per_page, max_per_page + 1, 2 * max_per_page, 2 * max_per_page + 50}

\* result sets that end before, on and after the boundaries of the pages
ResultSizes(limit) ==
    {0, 1, per_page(limit) - 1, per_page(limit), per_page(limit) + 1, 2 * per_page(limit),
     3 * per_page(limit)}

InitPage ==
    /\ \E limit \in Limits :
          /\ config = <<[name |-> "Xmas", overview |-> None, image |-> None,
                         source |-> "trakt", category |-> "trending", limit |-> limit]>>
          /\ \E n \in ResultSizes(limit), gap \in {0, 1, 2} : remote = ResultSet(n, gap)
    /\ library = Library
    /\ dry_run = FALSE
    /\ clear_collections = FALSE
    /\ remove_missing = TRUE
    /\ delete_unlisted = FALSE
    /\ colls = <<>> /\ nextId = 1
    /\ cache_file = NoFile /\ cache = _load_cache(cache_file)
    /\ managed = {} /\ calls = <<>>
    /\ last = [op |-> "init"]
    /\ pc = "idle" /\ idx = 0
    /\ total_stats = ZeroTotals
    /\ normalized_movies = <<>>
    /\ page = 0

\* fetch_movies up to the first test of the while condition
StartFetch ==
    /\ pc = "idle"
    /\ page' = 1
    /\ normalized_movies' = <<>>
    /\ calls' = <<>>
    /\ pc' = IF limit_reached(<<>>, config[1].limit) THEN "done" ELSE "paging"
    /\ last' = [op |-> "fetch", limit |-> config[1].limit]
    /\ UNCHANGED <<settings, remote, colls, nextId, cache, cache_file, managed, idx,
                   total_stats>>

\* one pass of the while loop: the request, the records of its answer and
\* the tests that end the loop; a failed request returns the empty list
FetchPage ==
    /\ pc = "paging"
    /\ page <= MaxPage
    /\ \E ok \in BOOLEAN :
        \E movies_data \in {page_of(remote, page, per_page(config[1].limit))} :
          \E r \in {while_body(normalized_movies, movies_data, config[1].limit)} :
            /\ calls' = Append(calls, Call("page", page, <<>>, ok))
            /\ normalized_movies' = IF ok THEN r.movies ELSE <<>>
            /\ page' = IF ok /\ r.goes_on THEN page + 1 ELSE page
            /\ pc' = IF ok /\ r.goes_on THEN "paging" ELSE "done"
            /\ last' = [op |-> "page", limit |-> config[1].limit, ok |-> ok,
                        received |-> Len(movies_data), before |-> Len(normalized_movies)]
    /\ UNCHANGED <<settings, remote, colls, nextId, cache, cache_file, managed, idx,
                   total_stats>>

NextPage == StartFetch \/ FetchPage

SpecPage == InitPage /\ [][NextPage]_vars

\* the fetch is called and the process keeps running: a step that can be
\* taken is taken
SpecPageFair == SpecPage /\ WF_vars(NextPage)

----------------------------------------------------------------------------
(* SpecNormalize: one movie of a provider's answer, in every form of its    *)
(* id fields, normalised by the adapter of its source                       *)

RawIds == {PyNone, PyStr(<<>>), PyStr(<<"t", "t", "7">>), PyStr(<<"7">>), PyInt(7)}

IdObjects ==
    {[present |-> FALSE, is_dict |-> FALSE, imdb |-> PyNone, tmdb |-> PyNone],
     [present |-> TRUE, is_dict |-> FALSE, imdb |-> PyNone, tmdb |-> PyNone]}
    \cup {[present |-> TRUE, is_dict |-> TRUE, imdb |-> i, tmdb |-> t] :
            i \in RawIds, t \in {PyNone, PyInt(0), PyInt(42)}}

\* MDBList answers carry the flat fields and perhaps an id object; Trakt
\* answers carry the ids object alone
RawMovies(source) ==
    IF source = "mdblist"
    THEN [imdb_id : RawIds, imdbid : {PyNone, PyStr(<<"7">>)},
          tmdb_id : {PyNone, PyInt(42)}, tmdbid : {PyNone},
          id : IdObjects]
    ELSE [imdb_id : {PyNone}, imdbid : {PyNone}, tmdb_id : {PyNone}, tmdbid : {PyNone},
          id : IdObjects]

InitNormalize ==
    /\ config = <<>>
    /\ library = Library
    /\ dry_run = FALSE
    /\ clear_collections = FALSE
    /\ remove_missing = TRUE
    /\ delete_unlisted = FALSE
    /\ colls = <<>> /\ nextId = 1
    /\ cache_file = NoFile /\ cache = _load_cache(cache_file)
    /\ managed = {} /\ calls = <<>>
    /\ \E source \in {"mdblist", "trakt"} :
        \E movie \in RawMovies(source) :
            last = [op |-> "raw", source |-> source, movie |-> movie]
    /\ pc = "idle" /\ idx = 0
    /\ total_stats = ZeroTotals
    /\ NoFetch

Normalize ==
    /\ pc = "idle" /\ last.op = "raw"
    /\ pc' = "done"
    /\ last' = [op |-> "normalize", source |-> last.source, movie |-> last.movie,
                record |-> _normalize_movie_data(last.source, last.movie)]
    /\ UNCHANGED <<flags, colls, nextId, cache, cache_file, managed, calls, idx, total_stats>>

NextNormalize == Normalize

SpecNormalize == InitNormalize /\ [][NextNormalize]_vars

----------------------------------------------------------------------------
(* SpecUnlisted: cycles with delete_unlisted over one configured collection *)
(* that is always in season, found on the server under its configured name  *)
(* or under another spelling of it, beside a collection that is not         *)
(* configured                                                                *)

InitUnlisted ==
    /\ config = <<Unseasonal>>
    /\ library = Library
    /\ dry_run \in BOOLEAN
    /\ clear_collections = FALSE
    /\ remove_missing = TRUE
    /\ delete_unlisted \in BOOLEAN
    /\ \E name \in {"Xmas", "xmas"} :
          colls = (1 :> Collection(name, <<1>>, "", None)
                   @@ 2 :> Collection("Old", <<2>>, "", None))
    /\ nextId = 3
    /\ InitRest

\* the fetch gives nothing, a movie of the library, or one that is not in it
UnlistedStep ==
    LoopStep({Date(6, 1)}, {<<>>, <<ImdbMovie(1)>>, <<ImdbMovie(NItems + 1)>>},
             {{}, {"get_collections"}, {"add"}})

NextUnlisted == StartCycle \/ UnlistedStep \/ FinishCycle \/ RunAgain

SpecUnlisted == InitUnlisted /\ [][NextUnlisted]_vars

----------------------------------------------------------------------------
(* Claims on the guarded metadata write (SpecMeta) *)

TextFields == {"Overview", "SortName"}

\* the value the last sync was given for a field
Desired(field) == IF field = "Overview" THEN last.overview ELSE last.sort_title

\* the collections of that name before the last sync
PreExisting == get_collections(last.pre, last.name)

\* live and tracked value of a field of the synced collection before the sync
PreLive(field) == last.pre[PreExisting[1]][field]
PreTracked(field) == get_tracked_value(last.pre_cache, PreExisting[1], field)

Live(field) == colls[PreExisting[1]][field]
Tracked(field) == get_tracked_value(cache, PreExisting[1], field)

\* the last operation was a sync that found its collection and reached the
\* metadata step
MetaStepRan ==
    /\ last.op = "sync" /\ ~last.raised
    /\ last.matched # <<>>
    /\ PreExisting # <<>>

MetaWrites == {k \in 1..Len(calls) : calls[k].op = "meta"}

\* C1: anti-clobber.  When a sync is given a value for Overview or SortName
\* of an existing collection whose tracked value T is set and differs from
\* the live value L, the live value is still L and the tracked value still T
\* after the sync, whatever the desired value and whichever request fails.
C1_AntiClobber ==
    (last.op = "sync" /\ PreExisting # <<>>) =>
        \A field \in TextFields :
            (/\ Truthy(Desired(field))
             /\ PreTracked(field) # None
             /\ PreLive(field) # PreTracked(field))
            => /\ PreExisting[1] \in DOMAIN colls
               /\ Live(field) = PreLive(field)
               /\ Tracked(field) = PreTracked(field)

\* tracked A, live edited to B, desired C, and the sync ran its metadata step
C1_Witness ==
    /\ MetaStepRan /\ last.F = {}
    /\ last.overview = "C"
    /\ PreTracked("Overview") = "A"
    /\ PreLive("Overview") = "B"
    /\ Live("Overview") = "B"

\* a field the tool may write: never tracked, or live value equal to the tracked one
Owned(field) == PreTracked(field) = None \/ PreLive(field) = PreTracked(field)

\* C2 as stated: for a field given a desired value V that the tool owns,
\* after a sync whose requests succeed the live and the tracked value are V,
\* and when the live value already was V no metadata write is issued.
C2_AsStated ==
    (MetaStepRan /\ last.F = {}) =>
        \A field \in TextFields :
            (Truthy(Desired(field)) /\ Owned(field))
            => /\ Live(field) = Desired(field)
               /\ Tracked(field) = Desired(field)
               /\ (PreLive(field) = Desired(field) => MetaWrites = {})

\* C2 amended: for a field given a desired value V that the tool owns, after
\* a sync whose requests succeed the live and the tracked value are V; the
\* one metadata write of the sync is issued exactly when some given field
\* that the tool owns has a live value other than its desired value, so none
\* is issued when that holds of no field.
C2_OwnedFieldUpdate ==
    (MetaStepRan /\ last.F = {}) =>
        /\ \A field \in TextFields :
              (Truthy(Desired(field)) /\ Owned(field))
              => /\ Live(field) = Desired(field)
                 /\ Tracked(field) = Desired(field)
        /\ MetaWrites # {} <=>
              \E field \in TextFields :
                  /\ Truthy(Desired(field)) /\ Owned(field)
                  /\ PreLive(field) # Desired(field)
        /\ Cardinality(MetaWrites) <= 1

\* the tool wrote A before, nobody edited it, and the sync now wrote B
C2_Witness ==
    /\ MetaStepRan /\ last.F = {}
    /\ last.overview = "B"
    /\ PreTracked("Overview") = "A"
    /\ PreLive("Overview") = "A"
    /\ Live("Overview") = "B"
    /\ Tracked("Overview") = "B"

----------------------------------------------------------------------------
(* Claims on membership reconciliation (SpecMembers) *)

\* the last operation was a sync that found its collection with something to put in it
FoundExisting ==
    /\ last.op = "sync" /\ ~last.raised
    /\ last.matched # <<>>
    /\ PreExisting # <<>>

PreItems == last.pre[PreExisting[1]].Items

\* the matched ids in desired order, each once
DesiredOrder == AppendNew(<<>>, last.matched)

CallsOf(op) == {k \in 1..Len(calls) : calls[k].op = op}

RECURSIVE IdsOf(_, _)
IdsOf(op, k) ==
    IF k > Len(calls) THEN <<>>
    ELSE (IF calls[k].op = op THEN calls[k].ids ELSE <<>>) \o IdsOf(op, k + 1)

\* C3: a sync without clear_collections that finds the collection holding
\* exactly the desired ids in the desired order issues no remove and no add
\* request and leaves the membership as it was.
C3_NoOpWhenUpToDate ==
    (FoundExisting /\ ~clear_collections /\ PreItems = last.matched)
    => /\ CallsOf("remove") = {} /\ CallsOf("add") = {}
       /\ colls[PreExisting[1]].Items = PreItems

\* C4 as stated: the second of two successive syncs with the same list,
\* clear_collections off and every request succeeding, reports added = 0,
\* removed = 0 and already_present = the number of matched items.
C4_AsStated ==
    (last.op = "sync" /\ last.again /\ ~clear_collections /\ ~last.raised /\ AllOk(calls))
    => /\ last.stats.added = 0
       /\ last.stats.removed = 0
       /\ last.stats.already_present = Len(last.matched)

\* C4 amended: the same, for syncs that are not dry runs (a dry run changes
\* nothing, so its second run reports the same would-be additions again).
C4_Idempotent ==
    (last.op = "sync" /\ last.again /\ ~dry_run /\ ~clear_collections
        /\ ~last.raised /\ AllOk(calls))
    => /\ last.stats.added = 0
       /\ last.stats.removed = 0
       /\ last.stats.already_present = Len(last.matched)

\* a second run over two matched items that rebuilt the collection
C4_Witness ==
    /\ last.op = "sync" /\ last.again /\ ~dry_run /\ ~clear_collections
    /\ Len(last.matched) = 2 /\ last.stats.not_found = 1
    /\ CallsOf("add") # {}
    /\ last.stats.already_present = 2

\* C5: a sync (not a dry run) that finds the collection holding the desired
\* set of members in another order than the desired one is no no-op: its
\* remove requests cover every current member, its add requests carry the
\* desired ids in desired order, and every remove precedes every add.
C5_OrderChangeRebuilds ==
    (FoundExisting /\ ~dry_run /\ Range(PreItems) = Range(last.matched)
        /\ PreItems # DesiredOrder)
    => /\ Range(IdsOf("remove", 1)) = Range(PreItems)
       /\ IdsOf("add", 1) = last.matched
       /\ \A i \in CallsOf("remove"), j \in CallsOf("add") : i < j

\* C6: after a sync that is not a dry run, has a non-empty matched list and
\* whose requests all succeed, the collection's member list is the matched
\* ids in desired order, whatever the prior state and the mode.
C6_MembershipIsDesired ==
    (last.op = "sync" /\ ~dry_run /\ ~last.raised /\ last.matched # <<>> /\ AllOk(calls))
    => LET now == get_collections(colls, last.name)
       IN now # <<>> /\ colls[now[1]].Items = DesiredOrder

\* C7: a sync none of whose movies matches a library item reports added,
\* removed and already_present 0, issues no mutating request and leaves
\* every collection as it was (none created; membership, metadata and image
\* unchanged), with clear_collections on or off.
C7_EmptyMatchUntouched ==
    (last.op = "sync" /\ last.matched = <<>>)
    => /\ last.stats.added = 0
       /\ last.stats.removed = 0
       /\ last.stats.already_present = 0
       /\ last.stats.not_found = Len(last.movies)
       /\ calls = <<>>
       /\ colls = last.pre
       /\ cache = last.pre_cache

\* clear mode, a collection with two members, an overview other than the
\* desired one and no image, and a list of two movies that are not in the library
C7_Witness ==
    /\ last.op = "sync" /\ last.matched = <<>> /\ Len(last.movies) = 2
    /\ clear_collections /\ ~dry_run
    /\ PreExisting # <<>>
    /\ Len(PreItems) = 2
    /\ PreLive("Overview") # last.overview
    /\ last.pre[PreExisting[1]].Image = None
    /\ colls = last.pre

----------------------------------------------------------------------------
(* Claims on batching (SpecBatch) *)

BatchDone == last.op \in {"add", "remove"}

\* the ids of the requests that succeeded
OkIds == UNION {Range(calls[k].ids) : k \in {j \in 1..Len(calls) : calls[j].ok}}

MemberOf(cs) == Range(cs[1].Items)

\* C8: an add or remove of n ids is sent as requests of at most 50 ids that
\* take the ids in input order: none for n = 0, ceil(n / 50) when all
\* succeed; a failed request is the last one sent, the call then returns
\* false, and what the earlier requests did stays done.
C8_Batching ==
    BatchDone =>
        LET n == Len(last.item_ids)
            sent == IdsOf(last.op, 1)
        IN /\ \A k \in 1..Len(calls) :
                /\ calls[k].op = last.op
                /\ Len(calls[k].ids) \in 1..50
                /\ k < Len(calls) => Len(calls[k].ids) = 50 /\ calls[k].ok
           /\ sent = SubSeq(last.item_ids, 1, Len(sent))
           /\ n = 0 => calls = <<>> /\ last.ret
           /\ AllOk(calls) => /\ Len(calls) = (n + 49) \div 50
                              /\ sent = last.item_ids
                              /\ last.ret
           /\ ~AllOk(calls) => ~last.ret
           /\ \A x \in OkIds :
                x \in MemberOf(colls) <=> last.op = "add"
           /\ \A x \in (MemberOf(last.pre) \cup MemberOf(colls)) \ OkIds :
                x \in MemberOf(colls) <=> x \in MemberOf(last.pre)

\* an add of more than 100 ids to an empty collection whose second request
\* failed: two requests were sent, the first 50 ids are members, no other is
C8_Witness ==
    /\ last.op = "add" /\ Len(last.item_ids) > 100
    /\ last.pre[1].Items = <<>>
    /\ Len(calls) = 2 /\ calls[1].ok /\ ~calls[2].ok
    /\ ~last.ret
    /\ colls[1].Items = SubSeq(last.item_ids, 1, 50)

----------------------------------------------------------------------------
(* Claims on failures within a cycle (SpecCycle) *)

StepDone == last.op = "step"

\* a create request, or a batch of a remove or add, of the step failed
MutationFailed ==
    \E k \in 1..Len(calls) : calls[k].op \in {"create", "add", "remove"} /\ ~calls[k].ok

\* C9: a loop step in which a create request or a batch of a remove or add
\* request failed counts its collection in collections_failed and not in
\* collections_processed, and adds none of its counts to the totals.
C9_FailureSurfaced ==
    (StepDone /\ MutationFailed)
    => /\ total_stats.collections_failed = last.totals.collections_failed + 1
       /\ total_stats.collections_processed = last.totals.collections_processed
       /\ total_stats.total_added = last.totals.total_added
       /\ total_stats.total_removed = last.totals.total_removed

\* C10: a loop step that ends in an error increments collections_failed and
\* leaves the loop at the next configured collection, and no cycle ends
\* without reaching its summary.
C10_FailureIsolation ==
    /\ (StepDone /\ last.outcome = "failed")
       => /\ total_stats.collections_failed = last.totals.collections_failed + 1
          /\ pc = "loop"
    /\ pc # "aborted"

----------------------------------------------------------------------------
(* Claims on dry runs and the seasonal window (SpecCycle, SpecSeason) *)

\* C11: with dry_run on, no step of a cycle and no end of a cycle issues a
\* mutating request (create, add, remove, delete, metadata, display order,
\* image), and the collections are after it what they were before it.
C11_DryRunNoMutation ==
    (dry_run /\ last.op \in {"step", "finish"})
    => calls = <<>> /\ colls = last.pre

\* the window of the one configured collection, as month * 100 + day
SeasonStart == config[1].seasonal.start_month * 100 + config[1].seasonal.start_day

SeasonEnd == config[1].seasonal.end_month * 100 + config[1].seasonal.end_day

StepDate == last.now.month * 100 + last.now.day

HasWindow == "seasonal" \in DOMAIN config[1]

CompleteWindow ==
    /\ HasWindow
    /\ \A f \in {"start_month", "start_day", "end_month", "end_day"} : config[1].seasonal[f] # 0

\* the step took the collection to be in season: it did not hide it
TakenInSeason == last.outcome # "hidden"

\* C12: for a complete window the loop takes the collection to be in season
\* on a date iff start <= date <= end when start <= end, and iff
\* date >= start or date <= end when start > end.
C12_SeasonalWindow ==
    (StepDone /\ CompleteWindow)
    => /\ SeasonStart <= SeasonEnd
            => (TakenInSeason <=> (SeasonStart <= StepDate /\ StepDate <= SeasonEnd))
       /\ SeasonStart > SeasonEnd
            => (TakenInSeason <=> (StepDate >= SeasonStart \/ StepDate <= SeasonEnd))

\* window Dec 15 to Jan 5 on Jan 3: in season
C12_Witness ==
    /\ StepDone /\ CompleteWindow
    /\ config[1].seasonal = Window(Date(12, 15), Date(1, 5))
    /\ last.now = Date(1, 3)
    /\ TakenInSeason

\* C13: a collection without a seasonal configuration, or with one that
\* lacks any of its four fields, is taken to be in season on every date: the
\* step never hides it, issues no delete, and a collection that existed
\* before the step exists after it.
C13_SeasonalDefault ==
    (StepDone /\ ~CompleteWindow)
    => /\ TakenInSeason
       /\ CallsOf("delete") = {}
       /\ DOMAIN last.pre \subseteq DOMAIN colls

\* a window that lacks only its end day, on a date outside Dec 15 to Jan 5,
\* in a run that is not a dry run, with the collection on the server
C13_Witness ==
    /\ StepDone /\ HasWindow /\ ~dry_run
    /\ config[1].seasonal = [start_month |-> 12, start_day |-> 15, end_month |-> 1, end_day |-> 0]
    /\ last.now = Date(6, 1)
    /\ last.pre # <<>>
    /\ last.outcome = "processed"
    /\ colls # <<>>

\* C14: in a run that is not a dry run, a step for a collection out of
\* season does nothing but delete the collection of that name when there is
\* one (one delete request, no other request, tracker and managed names
\* untouched), and a step for a collection in season that is not on the
\* server and has matches creates it with the matched ids in desired order.
C14_SeasonalLifecycle ==
    /\ (StepDone /\ ~dry_run /\ last.outcome = "hidden")
       => LET was == get_collections(last.pre, last.name)
          IN /\ was = <<>> => calls = <<>> /\ colls = last.pre
             /\ was # <<>> => /\ calls = <<Call("delete", was[1], <<>>, TRUE)>>
                              /\ DOMAIN colls = DOMAIN last.pre \ {was[1]}
                              /\ \A c \in DOMAIN colls : colls[c] = last.pre[c]
    /\ (StepDone /\ ~dry_run /\ last.outcome = "processed"
          /\ get_collections(last.pre, last.name) = <<>>
          /\ matched_ids(rank_sorted(last.movies), 1) # <<>>)
       => LET now == get_collections(colls, last.name)
          IN /\ Len(now) = 1
             /\ now[1] \notin DOMAIN last.pre
             /\ colls[now[1]].Items = AppendNew(<<>>, matched_ids(rank_sorted(last.movies), 1))
             /\ CallsOf("create") # {}

\* the collection with id 1 was hidden in an earlier cycle and this
\* in-season step has created it again, as collection 2 with members 1, 2
C14_Witness ==
    /\ StepDone /\ ~dry_run /\ last.outcome = "processed"
    /\ CompleteWindow
    /\ last.pre = <<>>
    /\ DOMAIN colls = {2}
    /\ colls[2].Name = "Xmas"
    /\ colls[2].Items = <<1, 2>>

----------------------------------------------------------------------------
(* Claims on the matcher (SpecMatch) *)

FindDone == last.op = "find"

\* positions of the priority list whose strategy alone yields an item
Yielding == {k \in 1..Len(last.priority) : strategy_result(last.priority[k], last.movie).Id # 0}

FirstYielding == CHOOSE k \in Yielding : \A j \in Yielding : k <= j

\* the searches of the strategies at positions 1..n, in order
RECURSIVE SearchesUpTo(_)
SearchesUpTo(n) ==
    IF n = 0 THEN <<>>
    ELSE SearchesUpTo(n - 1) \o strategy_result(last.priority[n], last.movie).searches

\* the strategy that produced the item: the one that searched last
FoundBy == last.searches[Len(last.searches)]

TheItem == CHOOSE it \in Range(library) : it.Id = last.Id

\* C15: the result is the item of the first strategy in priority order that
\* yields one, the searches issued are those of the strategies up to that
\* one and no later one, and the record is unmatched only when no strategy
\* of the list yields an item (then every strategy was gone through).
C15_MatcherPriority ==
    FindDone =>
        /\ Yielding # {}
             => /\ last.Id = strategy_result(last.priority[FirstYielding], last.movie).Id
                /\ last.searches = SearchesUpTo(FirstYielding)
        /\ Yielding = {}
             => /\ last.Id = 0
                /\ last.searches = SearchesUpTo(Len(last.priority))

\* title comes first and yields item 3 although tmdb_id would yield item 1:
\* only the title search was issued
C15_Witness ==
    /\ FindDone
    /\ last.priority = <<"title", "tmdb_id", "imdb_id">>
    /\ last.movie.tmdb_id = 101 /\ last.movie.title = <<"Love">> /\ last.movie.year = 2015
    /\ library = <<Item(1, <<"Love", "the", "Coopers">>, 2015, 1, 101), Item(3, <<"Love">>, 2015, 2, 103)>>
    /\ last.Id = 3
    /\ last.searches = <<"title">>

FoundByStrategy(strategy) == last.Id # 0 /\ FoundBy = strategy

ImdbResults == search_items(<<>>, last.movie.imdb_id, 0)

ImdbPosition == CHOOSE k \in 1..Len(last.priority) : last.priority[k] = "imdb_id"

\* the imdb_id search was issued and its first result carries another IMDb id
ImdbMismatch ==
    /\ "imdb_id" \in Range(last.searches)
    /\ ImdbResults # <<>>
    /\ ImdbResults[1].ProviderIds.Imdb # last.movie.imdb_id

LaterYielding == {k \in Yielding : k > ImdbPosition}

\* C16: an item found by the imdb_id strategy is the first result of the
\* IMDb search and carries literally the record's imdb_id; when the first
\* result carries another id the strategy yields nothing and the strategies
\* after it in the priority list are gone through as usual.
C16_ImdbVerification ==
    FindDone =>
        /\ FoundByStrategy("imdb_id")
             => /\ last.Id = ImdbResults[1].Id
                /\ ImdbResults[1].ProviderIds.Imdb = last.movie.imdb_id
        /\ ImdbMismatch
             => /\ ~FoundByStrategy("imdb_id")
                /\ LaterYielding = {} => /\ last.Id = 0
                                         /\ last.searches = SearchesUpTo(Len(last.priority))
                /\ LaterYielding # {} => last.Id # 0 /\ FoundBy = last.priority[FirstYielding]

\* the record's imdb_id is item 1's in the other case: the candidate is
\* dropped and the tmdb_id strategy, next in the list, finds item 3
C16_Witness ==
    /\ FindDone /\ ImdbMismatch
    /\ last.priority = <<"imdb_id", "tmdb_id">>
    /\ last.movie.imdb_id = -1 /\ last.movie.tmdb_id = 103
    /\ last.searches = <<"imdb_id", "tmdb_id">>
    /\ last.Id = 3

\* C17: for a record without a year no title search is issued and the title
\* strategy yields nothing, whatever the library holds; an item found by the
\* title strategy has the record's year as its production year.
C17_TitleNeedsYear ==
    FindDone =>
        /\ last.movie.year = 0
             => "title" \notin Range(last.searches) /\ ~FoundByStrategy("title")
        /\ FoundByStrategy("title") => TheItem.ProductionYear = last.movie.year

\* the record is just the title Love; the library holds a Love without a
\* production year and a Love of 2015
C17_Witness ==
    /\ FindDone
    /\ last.movie = Movie(<<"Love">>, 0, 0, 0)
    /\ "title" \in Range(last.priority)
    /\ library = <<Item(5, <<"Love">>, 0, 5, 105), Item(3, <<"Love">>, 2015, 2, 103)>>
    /\ last.Id = 0
    /\ last.searches = <<>>

\* at least 0.8 of the words of title a are words of title b
Covers(a, b) ==
    5 * Cardinality(LowerWords(a) \cap LowerWords(b)) >= 4 * Cardinality(LowerWords(a))

Passes(it) ==
    /\ it.ProductionYear = last.movie.year
    /\ Covers(last.movie.title, it.Name)
    /\ Covers(it.Name, last.movie.title)

\* C18: an item found by the title strategy has the record's year and
\* passes the 0.8 threshold in both directions; when no item of the library
\* does, the title strategy yields nothing (no fallback to a search result).
C18_TitleThreshold ==
    FindDone =>
        /\ FoundByStrategy("title") => Passes(TheItem)
        /\ (\A it \in Range(library) : ~Passes(it)) => ~FoundByStrategy("title")

\* Love (2015) against a library that holds only Love the Coopers (2015):
\* the title search returns it, and the record stays unmatched
C18_Witness ==
    /\ FindDone
    /\ last.movie = Movie(<<"Love">>, 2015, 0, 0)
    /\ library = <<Item(1, <<"Love", "the", "Coopers">>, 2015, 1, 101)>>
    /\ search_items(last.movie.title, 0, 0) # <<>>
    /\ last.searches = <<"title">>
    /\ last.Id = 0

----------------------------------------------------------------------------
(* Claims on the image step (SpecImage) and the tracker (SpecTracker) *)

\* C19: an image step without force, for an image file that exists, on a
\* collection that carries a primary image uploads nothing, leaves the
\* image as it is and reports success.
C19_ImagePreserved ==
    (last.op = "image" /\ ~last.force /\ FileExists(last.image_path)
        /\ last.pre[last.cid].Image # None)
    => /\ CallsOf("image") = {}
       /\ colls = last.pre
       /\ last.ret

\* C20: when track has returned, the tracker answers the tracked value for
\* that collection and field and answers as before for every other pair,
\* and whenever track or forget has returned a tracker loaded from the
\* cache file holds what the running tracker holds.
C20_TrackerRoundTrip ==
    /\ last.op = "track" =>
         /\ get_tracked_value(cache, last.cid, last.field) = last.value
         /\ \A k \in TrackedIds, f \in TrackedFields :
               (k # last.cid \/ f # last.field)
               => get_tracked_value(cache, k, f) = get_tracked_value(last.pre_cache, k, f)
         /\ get_tracked_value(_load_cache(cache_file), last.cid, last.field) = last.value
    /\ last.op \in {"track", "forget"} => _load_cache(cache_file) = cache

----------------------------------------------------------------------------
(* Claims on the tracker and the gateway together (SpecMeta, SpecCycle) *)

\* C21: the tracker never runs ahead of the gateway: when a sync has changed
\* the tracked value of a field of its collection, the live value of that
\* field on the server is the tracked value, also when a request of the
\* metadata step failed.
C21_TrackerNotAhead ==
    MetaStepRan =>
        \A field \in TextFields :
            Tracked(field) # PreTracked(field) => Live(field) = Tracked(field)

\* C22: when the tool has deleted a collection, by a seasonal hide or as an
\* unlisted collection, the tracker holds no entry for the id of that
\* collection.
C22_TrackerPruned ==
    \A k \in 1..Len(calls) :
        (calls[k].op = "delete" /\ calls[k].ok) => calls[k].cid \notin DOMAIN cache

----------------------------------------------------------------------------
(* Claims on the counts of a sync and on the modes (SpecMembers, SpecModes) *)

\* the last sync rebuilt its collection: not a dry run, no clearing, and the
\* desired ids were sent
Rebuilt == FoundExisting /\ ~dry_run /\ ~clear_collections /\ CallsOf("add") # {}

\* C23: a sync that rebuilds an existing collection reports
\* added = |desired \ current|, removed = |current \ desired| and
\* already_present = |current \cap desired| over the sets of ids, whatever
\* the number of ids its requests carried, so that added + already_present
\* is the size of the desired set and removed + already_present the size of
\* the current set.
C23_RebuildCounts ==
    Rebuilt =>
        LET desired == Range(last.matched)
            current == Range(PreItems)
        IN /\ last.stats.added = Cardinality(desired \ current)
           /\ last.stats.removed = Cardinality(current \ desired)
           /\ last.stats.already_present = Cardinality(current \cap desired)
           /\ last.stats.added + last.stats.already_present = Cardinality(desired)
           /\ last.stats.removed + last.stats.already_present = Cardinality(current)

\* a rebuild of members 1, 2 into member 2 alone: the remove request carried
\* two ids, and one removal and one staying member are reported
C23_Witness ==
    /\ Rebuilt
    /\ PreItems = <<1, 2>> /\ last.matched = <<2>>
    /\ Len(IdsOf("remove", 1)) = 2 /\ Len(IdsOf("add", 1)) = 1
    /\ last.stats.removed = 1 /\ last.stats.already_present = 1 /\ last.stats.added = 0

\* C24: with clear_collections on, a sync that finds its collection reports
\* added = the number of matched items, removed = 0 and already_present = 0
\* whatever the overlap of current and desired members; when it is not a dry
\* run its remove requests carry every current member and come before its
\* add requests, which carry the matched ids in order, and the collection
\* then holds the desired members in desired order.
C24_ClearMode ==
    (FoundExisting /\ clear_collections)
    => /\ last.stats.added = Len(last.matched)
       /\ last.stats.removed = 0
       /\ last.stats.already_present = 0
       /\ ~dry_run =>
            /\ Range(IdsOf("remove", 1)) = Range(PreItems)
            /\ IdsOf("add", 1) = last.matched
            /\ \A i \in CallsOf("remove"), j \in CallsOf("add") : i < j
            /\ colls[PreExisting[1]].Items = DesiredOrder

\* members 1, 2 cleared and filled with 2, 1: both were there before, and
\* two additions are reported
C24_Witness ==
    /\ FoundExisting /\ clear_collections /\ ~dry_run
    /\ PreItems = <<1, 2>> /\ last.matched = <<2, 1>>
    /\ CallsOf("remove") # {} /\ CallsOf("add") # {}
    /\ last.stats.added = 2
    /\ colls[PreExisting[1]].Items = <<2, 1>>

\* C25: with remove_missing off, a sync that finds its collection leaves
\* every member the collection had and reports removed = 0.
C25_RemoveMissingHonoured ==
    (FoundExisting /\ ~remove_missing)
    => /\ Range(PreItems) \subseteq Range(colls[PreExisting[1]].Items)
       /\ last.stats.removed = 0

----------------------------------------------------------------------------
(* Claims on the order of the records (SpecSort) *)

\* the ids the step sent to the server, in the order it sent them
SentIds == IdsOf("create", 1) \o IdsOf("add", 1)

\* the step synced a list and sent its ids
SortDone == StepDone /\ last.outcome = "processed" /\ SentIds # <<>>

\* the fetched record with an id
RecordOf(id) == CHOOSE m \in Range(last.movies) : m.imdb_id = id

SortBy == config_get(config[1], "sort_by")

AllRanked == \A k \in 1..Len(last.movies) : last.movies[k].list_rank # 0

NoneRanked == \A k \in 1..Len(last.movies) : last.movies[k].list_rank = 0

ProviderOrder == [k \in 1..Len(last.movies) |-> last.movies[k].imdb_id]

\* C26: the ids are sent in ascending list_rank when the records carry a
\* list_rank, whatever sort_by is; else by descending rating, descending
\* votes or ascending title when sort_by is one of these; else in the
\* provider's order.  Every record is sent once.
C26_SortPrecedence ==
    SortDone =>
        /\ Len(SentIds) = Len(last.movies) /\ Range(SentIds) = Range(ProviderOrder)
        /\ AllRanked =>
             \A i, j \in 1..Len(SentIds) :
                 i < j => RecordOf(SentIds[i]).list_rank <= RecordOf(SentIds[j]).list_rank
        /\ (NoneRanked /\ SortBy = "rating") =>
             \A i, j \in 1..Len(SentIds) :
                 i < j => RecordOf(SentIds[i]).rating >= RecordOf(SentIds[j]).rating
        /\ (NoneRanked /\ SortBy = "votes") =>
             \A i, j \in 1..Len(SentIds) :
                 i < j => RecordOf(SentIds[i]).votes >= RecordOf(SentIds[j]).votes
        /\ (NoneRanked /\ SortBy = "title") =>
             \A i, j \in 1..Len(SentIds) :
                 i < j => TitleOrd(RecordOf(SentIds[i]).title) <= TitleOrd(RecordOf(SentIds[j]).title)
        /\ (NoneRanked /\ SortBy \notin {"rating", "votes", "title"}) => SentIds = ProviderOrder

\* ranks 3, 1, 2 and ratings 2, 1, 3 with sort_by rating: the ids go out by
\* rank, 2 3 1, and not by rating, 3 1 2
C26_Witness ==
    /\ SortDone /\ SortBy = "rating"
    /\ ProviderOrder = <<1, 2, 3>>
    /\ \A k \in 1..3 : last.movies[k].list_rank = <<3, 1, 2>>[k]
                       /\ last.movies[k].rating = <<2, 1, 3>>[k]
    /\ SentIds = <<2, 3, 1>>

----------------------------------------------------------------------------
(* Claims on the provider adapters (SpecNormalize, SpecPage) *)

\* the limit of the fetch and the size of its pages
Limit == config[1].limit
PageSize == IF Limit < 100 THEN Limit ELSE 100

\* the movies the provider holds on pages 1..k
OnPages(k) == IF k * PageSize < Len(remote) THEN k * PageSize ELSE Len(remote)

\* the movies on pages 1..k that carry an id
WithIdOnPages(k) == Cardinality({i \in 1..OnPages(k) : remote[i].id.tmdb.n # 0})

\* page k ends the fetch: it is empty or short, or the limit is reached with it
StopsAfter(k) ==
    \/ OnPages(k) - OnPages(k - 1) < PageSize
    \/ WithIdOnPages(k) >= Limit

AllAnswered == \A k \in 1..Len(calls) : calls[k].ok

\* the ids of the first n movies of the provider that carry one, in its order
FirstWithId(n) ==
    Take(SelectSeq([i \in 1..Len(remote) |-> remote[i].id.tmdb.n], LAMBDA id : id # 0), n)

PageSafety ==
    pc \in {"paging", "done"} =>
        /\ \A k \in 1..Len(calls) : calls[k].op = "page" /\ calls[k].cid = k
        /\ Len(normalized_movies) <= Limit
        /\ AllAnswered =>
             /\ \A k \in 1..Len(calls) : (k < Len(calls) \/ pc = "paging") => ~StopsAfter(k)
             /\ (pc = "done" /\ calls # <<>>) => StopsAfter(Len(calls))
             /\ pc = "done" =>
                  /\ Len(normalized_movies) = Len(FirstWithId(WithIdOnPages(Len(calls))))
                        \/ Len(normalized_movies) = Limit
                  /\ \A i \in 1..Len(normalized_movies) :
                        normalized_movies[i].tmdb_id
                            = py_str(PyInt(FirstWithId(Limit)[i]))

\* C27: for a positive limit, the fetch of a Trakt category requests the
\* pages 1, 2, 3, ... in order and stops at the first page that is empty or
\* shorter than the page size or with which the limit is reached; it ends,
\* and returns at most limit records, in the provider's order.
C27_PaginationTerminates == [](Limit > 0 => PageSafety) /\ <>(pc = "done")

\* limit 101 over 300 movies: page 1 gives 100 records, page 2 gives the
\* last one, and no third page is requested
C27_Witness ==
    /\ pc = "done" /\ last.op = "page" /\ AllAnswered
    /\ Limit = 101 /\ Len(remote) = 300
    /\ Len(calls) = 2
    /\ Len(normalized_movies) = 101

\* C28: a record emitted by either adapter has an imdb_id or a tmdb_id, and
\* its imdb_id, when it has one, begins with tt, whatever the form of the
\* provider's answer.
C28_IdNormalization ==
    (last.op = "normalize" /\ last.record.emitted)
    => /\ py_truthy(last.record.imdb_id) \/ py_truthy(last.record.tmdb_id)
       /\ py_truthy(last.record.imdb_id) => startswith_tt(last.record.imdb_id)

\* the same holds of the MDBList adapter alone
MdblistNormalized == last.source = "mdblist" => C28_IdNormalization

----------------------------------------------------------------------------
(* Claims on the end of a cycle (SpecUnlisted, SpecCycle) *)

\* the cycle has run delete_unlisted_collections
CycleFinished == last.op = "finish"

\* the collection belongs to a configured entry: the names are equal without
\* regard to letter case, as when the sync looks the collection up
Configured(collection) ==
    \E k \in 1..Len(config) : Lower(config[k].name) = Lower(collection.Name)

\* C29: the deletion of unlisted collections at the end of a cycle deletes no
\* collection that belongs to a configured in-season entry, whatever the
\* fetch and the sync of that entry came to, and deletes nothing when
\* delete_unlisted is off.
C29_ConfiguredSpared ==
    CycleFinished =>
        /\ \A c \in DOMAIN last.pre : Configured(last.pre[c]) => c \in DOMAIN colls
        /\ ~delete_unlisted => colls = last.pre

\* the entries of the finished loop that were handled as outcome
HandledAs(outcome) == {k \in 1..Len(last.handled) : last.handled[k].outcome = outcome}

RECURSIVE SumOver(_, _)
SumOver(S, field) ==
    IF S = {} THEN 0
    ELSE LET k == CHOOSE x \in S : TRUE
         IN last.handled[k].stats[field] + SumOver(S \ {k}, field)

\* the counters of the cycle as the loop left them
LoopTotals == IF CycleFinished THEN last.totals ELSE total_stats

\* C30: at the end of a cycle every configured entry has been handled once, in
\* configuration order, as hidden (out of season, the hide did not raise), as
\* processed or as failed (in season, or a hide that raised); processed plus
\* failed plus hidden is the number of configured entries, and total_added,
\* total_removed and total_not_found are the sums of the stats returned for
\* the processed entries.
C30_CycleAccounting ==
    CycleFinished =>
        /\ Len(last.handled) = Len(config)
        /\ \A k \in 1..Len(config) :
              /\ last.handled[k].name = config[k].name
              /\ last.handled[k].outcome \in {"hidden", "processed", "failed"}
              /\ last.handled[k].outcome = "hidden"
                    => ~is_collection_in_season(config[k], last.handled[k].now)
              /\ last.handled[k].outcome = "processed"
                    => is_collection_in_season(config[k], last.handled[k].now)
        /\ LoopTotals.collections_processed = Cardinality(HandledAs("processed"))
        /\ LoopTotals.collections_failed = Cardinality(HandledAs("failed"))
        /\ LoopTotals.collections_processed + LoopTotals.collections_failed
              + Cardinality(HandledAs("hidden")) = Len(config)
        /\ LoopTotals.total_added = SumOver(HandledAs("processed"), "added")
        /\ LoopTotals.total_removed = SumOver(HandledAs("processed"), "removed")
        /\ LoopTotals.total_not_found = SumOver(HandledAs("processed"), "not_found")
        /\ total_stats.total_added = LoopTotals.total_added
        /\ total_stats.collections_processed = LoopTotals.collections_processed
        /\ total_stats.collections_failed = LoopTotals.collections_failed

\* a finished cycle with one entry hidden and one processed with additions
C30_Witness ==
    /\ CycleFinished
    /\ HandledAs("hidden") # {}
    /\ HandledAs("processed") # {}
    /\ total_stats.total_added > 0

====
